---- MODULE Spec2Model ----
(***************************************************************************)
(* PageFaultStat: the sampling / delta / sort / dump engine.               *)
(*                                                                         *)
(* The fault records live in a heap `rec` indexed by record id (0 is the   *)
(* null pointer).  Every record carries the three links of fault_info_t:   *)
(* next (sample list and free list), s_next and d_next (sort chains).      *)
(* The dump functions are translated loop by loop, pointer by pointer.     *)
(***************************************************************************)
EXTENDS Integers, Sequences, FiniteSets, TLC

(* ---------------------------------------------------------------------- *)
(* Bounds of the model                                                     *)
(* ---------------------------------------------------------------------- *)
NumPids == 2
MaxFault == 1
MaxTicks == 2

(* ---------------------------------------------------------------------- *)
(* Program constants                                                       *)
(* ---------------------------------------------------------------------- *)
NULL == 0
SORT_MAJOR_MINOR == 0
SORT_MAJOR == 1
SORT_MINOR == 2
SORT_D_MAJOR_MINOR == 3
SORT_D_MAJOR == 4
SORT_D_MINOR == 5
SORT_SWAP == 6
SORT_END == 7
DefaultRows == 25
DefaultCols == 80

Pids == 1..NumPids
FaultValues == 0..MaxFault
TermRows == {2}
SwapTables == {[p \in Pids |-> p % 2]}
\* The pool never holds more records than two full sample sets or one sample
\* set plus the preallocation.
MaxRec == NumPids + (NumPids * 5) \div 4
RecIds == 1..MaxRec

VARIABLES
    rec,                \* heap of fault_info_t, indexed by record id
    fault_info_cache,   \* head of the free list
    fault_info_old,     \* head of the previous sample list
    fault_info_new,     \* head of the new sample list
    nalloc,             \* number of records obtained from calloc so far
    sort_by,            \* active sort key
    opt_flags,          \* set of option flag names
    stop_faultstat,     \* stop flag
    forever, count,     \* loop control of main
    df,                 \* active display: "normal" or "top"
    rows,               \* terminal height
    cury,               \* row tracked by the interactive display
    pc,                 \* position of main
    ticks,              \* loop iterations that were not idle
    vm_swap_of,         \* environment: VmSwap of each pid
    scan_old, scan_new, \* what the previous / the new scan observed, in list order
    rec_scan,           \* the heap as the last scan left it, before the dump ran
    out                 \* what the last dump wrote

\* The allow-list of the -p option and the filter of the sampler.
VARIABLES
    pids,               \* the allow-list, head first
    argv,               \* the -p arguments not parsed yet
    probe               \* the last process the sampler filtered, and the outcome

\* The clock, the inter-sample wait, the signals and the terminal of a run.
VARIABLES
    clock,              \* environment: the time of day, in units of 1 / UnitsPerSecond s
    term_rows,          \* environment: the height of the terminal
    duration_secs,      \* the sampling interval
    time_start,         \* time of day read before the loop
    time_now,           \* time of day read at the end of the last tick
    t,                  \* the tick counter of main
    redo,               \* a resize interrupted the last wait
    resized,            \* flag set by handle_sigwinch
    tv,                 \* timeout of select; Linux leaves the time not slept in it
    deadline,           \* the time of day the last computed wait ends at
    curses,             \* the ncurses screen: "off", "on" or "ended"
    endwins,            \* calls of faultstat_top_endwin
    restored,           \* display_restore was called
    stderr,             \* messages written to standard error
    exit_status,        \* argument of exit(), "none" while running
    stop_at             \* where main was when the stop flag was set

\* The process cache and the user-name cache.
VARIABLES
    proc_cache_hash,    \* hash table of proc_info_t chains, head first
    uname_cache,        \* hash table of uname_cache_t chains, head first
    proc_fs,            \* environment: what /proc holds for each pid
    passwd,             \* environment: the user database
    last_proc,          \* the last proc_cache_find_by_pid() and its result
    last_uname          \* the last uname_cache_find() and its result

\* What the scans took from the record pool.
VARIABLES
    precached,          \* records the scan before the loop put on the old list
    unread,             \* /proc entries the last scan allocated for and could not read
    fresh               \* records the last scan obtained from calloc

\* The keyboard.
VARIABLES
    pending,            \* environment: the keystrokes waiting on standard input
    last_key            \* the character the last key poll read, "none" if none

\* A scan taken one process at a time.
VARIABLES
    scan_pid,           \* the entry of /proc the scan is at
    last_alloc          \* the last fault_cache_alloc(): the record, before and after

\* One stat file read by the sampler, and one number given to the formatter.
VARIABLES
    stat_kernel,        \* environment: the process as the kernel reports it
    stat_buf,           \* buffer of fault_get_by_proc() after fgets()
    stat_got,           \* what fault_get_by_proc() stored in the sample
    fmt_val,            \* the int64_t given to int64_to_str()
    fmt_buf             \* the buffer int64_to_str() filled in

\* The interactive display as faultstat_top_printf() drives it.
VARIABLES
    cols,               \* columns of the terminal
    tty                 \* what printw() was given since the last df_clear()

\* One request to POST /api/safe-terminate of the API server.
VARIABLES
    occupant,           \* environment: the process that has the requested pid
    req,                \* the body of the request
    api_pc,             \* where the handler is between its awaits
    processInfo,        \* what getProcessInfoIfAlive() resolved to
    signalled           \* the signals sent: to whom, and who had been validated

\* The standard output of the engine in machine-readable mode.
VARIABLES
    stdout              \* the lines written, each without its newline

mainVars == <<rec, fault_info_cache, fault_info_old, fault_info_new, nalloc, sort_by,
              opt_flags, stop_faultstat, forever, count, df, rows, cury, ticks,
              vm_swap_of, scan_old, scan_new, rec_scan, out>>
filterVars == <<pids, argv, probe>>
runVars == <<clock, term_rows, duration_secs, time_start, time_now, t, redo, resized,
             tv, deadline, curses, endwins, restored, stderr, exit_status, stop_at>>
cacheVars == <<proc_cache_hash, uname_cache, proc_fs, passwd, last_proc, last_uname>>
poolVars == <<precached, unread, fresh>>
keyVars == <<pending, last_key>>
allocVars == <<scan_pid, last_alloc>>
pureVars == <<stat_kernel, stat_buf, stat_got, fmt_val, fmt_buf>>
screenVars == <<cols, tty>>
apiVars == <<occupant, req, api_pc, processInfo, signalled>>
jsonVars == <<stdout>>
restVars == <<keyVars, allocVars, pureVars, screenVars, apiVars, jsonVars>>
auxVars == <<filterVars, runVars, cacheVars, poolVars, restVars>>

vars == <<mainVars, pc, auxVars>>

\* No -p option was given: pids is NULL and the sampler filters nothing.
NoProbe == [pid |-> 0, cmdline |-> <<>>, sampled |-> FALSE]
FilterIdle ==
    /\ pids = <<>>
    /\ argv = <<>>
    /\ probe = NoProbe
\* The clock and the terminal are not looked at.
UnitsPerSecond == 4
NoStop == [pc |-> "none", tick |-> 0]
RunIdle ==
    /\ clock = 0
    /\ term_rows = DefaultRows
    /\ duration_secs = UnitsPerSecond
    /\ time_start = 0
    /\ time_now = 0
    /\ t = 1
    /\ redo = FALSE
    /\ resized = FALSE
    /\ tv = [tv_sec |-> 0, tv_usec |-> 0]
    /\ deadline = 0
    /\ curses = "off"
    /\ endwins = 0
    /\ restored = FALSE
    /\ stderr = {}
    /\ exit_status = "none"
    /\ stop_at = NoStop

\* The caches are empty and are not looked at.
PROC_HASH_TABLE_SIZE == 503
UNAME_HASH_TABLE_SIZE == 521
CachePids == {7, 7 + PROC_HASH_TABLE_SIZE}
CacheUids == {0, UNAME_HASH_TABLE_SIZE}
ProcBuckets == {pid % PROC_HASH_TABLE_SIZE : pid \in CachePids}
UnameBuckets == {uid % UNAME_HASH_TABLE_SIZE : uid \in CacheUids}
NoProc == [pid |-> 0, cmdline |-> <<>>, kernel_thread |-> FALSE]
NoUname == [uid |-> 0, name |-> <<>>]
NoLookup(r) == [key |-> 0, found |-> FALSE, rec |-> r, queried |-> FALSE]
CacheIdle ==
    /\ proc_cache_hash = [h \in ProcBuckets |-> <<>>]
    /\ uname_cache = [h \in UnameBuckets |-> <<>>]
    /\ proc_fs = [pid \in CachePids |-> [exists |-> FALSE, cmdline |-> <<>>]]
    /\ passwd = [uid \in CacheUids |-> <<>>]
    /\ last_proc = NoLookup(NoProc)
    /\ last_uname = NoLookup(NoUname)

\* No scan has run.
PoolIdle ==
    /\ precached = 0
    /\ unread = 0
    /\ fresh = 0

\* Nothing is typed.
KeysIdle ==
    /\ pending = <<>>
    /\ last_key = "none"

\* No scan is under way.
AllocIdle ==
    /\ scan_pid = 1
    /\ last_alloc = [p |-> 0, was |-> <<>>, rec |-> <<>>]

NoStat == [comm |-> <<>>, minflt |-> 0, cminflt |-> 0, majflt |-> 0]
NoGot == [ret |-> 1, ptr |-> 0, min_fault |-> 0, maj_fault |-> 0]
NoVal == [neg |-> FALSE, a |-> 0, b |-> 0, c |-> 0]
StatIdle ==
    /\ stat_kernel = NoStat
    /\ stat_buf = <<>>
    /\ stat_got = NoGot
FmtIdle ==
    /\ fmt_val = NoVal
    /\ fmt_buf = <<>>
PureIdle == StatIdle /\ FmtIdle

\* Nothing printed: no newline, an empty current line, no line so far.
NoText == [nl |-> 0, cur |-> 0, widest |-> 0, calls |-> 0]
ScreenIdle ==
    /\ cols = DefaultCols
    /\ tty = NoText

\* No process, and no request.
NoOne == [gen |-> 0, user |-> "", name |-> <<>>]
NoReq == [pid |-> 0, processName |-> <<>>]
ApiIdle ==
    /\ occupant = NoOne
    /\ req = NoReq
    /\ api_pc = "none"
    /\ processInfo = NoOne
    /\ signalled = {}

JsonIdle == stdout = <<>>

RestIdle == KeysIdle /\ AllocIdle /\ PureIdle /\ ScreenIdle /\ ApiIdle /\ JsonIdle

AuxIdle == FilterIdle /\ RunIdle /\ CacheIdle /\ PoolIdle /\ RestIdle

(* ---------------------------------------------------------------------- *)
(* fault_info_t and the record pool (cache.c)                              *)
(* ---------------------------------------------------------------------- *)
ZeroRec ==
    [pid |-> 0, min_fault |-> 0, maj_fault |-> 0, vm_swap |-> 0,
     d_min_fault |-> 0, d_maj_fault |-> 0,
     d_next |-> NULL, s_next |-> NULL, next |-> NULL, alive |-> FALSE]

\* A pool state is [rec, cache, nalloc].
Pool(r, c, n) == [rec |-> r, cache |-> c, nalloc |-> n]

\* An acquire that hands out the head of the free list as it was released.
fault_cache_alloc_dirty(m) ==
    IF m.cache # NULL
    THEN [m |-> Pool(m.rec, m.rec[m.cache].next, m.nalloc), p |-> m.cache]
    ELSE [m |-> Pool([m.rec EXCEPT ![m.nalloc + 1] = ZeroRec], m.cache, m.nalloc + 1),
          p |-> m.nalloc + 1]

\* fault_cache_alloc: pop and zero the head of the free list, else calloc.
fault_cache_alloc(m) ==
    IF m.cache # NULL
    THEN [m |-> Pool([m.rec EXCEPT ![m.cache] = ZeroRec],
                     m.rec[m.cache].next, m.nalloc),
          p |-> m.cache]
    ELSE [m |-> Pool([m.rec EXCEPT ![m.nalloc + 1] = ZeroRec],
                     m.cache, m.nalloc + 1),
          p |-> m.nalloc + 1]

\* fault_cache_free: push onto the free list.
fault_cache_free(m, p) ==
    Pool([m.rec EXCEPT ![p].next = m.cache], p, m.nalloc)

\* A release of a list that gives back its first record only.
fault_cache_free_list_first(m, p) ==
    IF p = NULL THEN m ELSE fault_cache_free(m, p)

RECURSIVE fault_cache_free_list(_, _)
fault_cache_free_list(m, p) ==
    IF p = NULL THEN m
    ELSE LET nxt == m.rec[p].next
         IN  fault_cache_free_list(fault_cache_free(m, p), nxt)

\* A start-up that puts no spare record on the free list.
fault_cache_prealloc_none(m, n) == m

RECURSIVE fault_cache_prealloc(_, _)
fault_cache_prealloc(m, n) ==
    IF n = 0 THEN m
    ELSE fault_cache_prealloc(
            fault_cache_free_list(
                Pool([m.rec EXCEPT ![m.nalloc + 1] = ZeroRec], m.cache, m.nalloc + 1),
                m.nalloc + 1),
            n - 1)

(* ---------------------------------------------------------------------- *)
(* The sampler                                                             *)
(* ---------------------------------------------------------------------- *)
\* What /proc holds for one pid at the time of a scan:
\*   "absent"  no entry for the pid,
\*   "fail"    the entry is listed but its stat file cannot be read,
\*   "skip"    a kernel thread, or a process the allow-list leaves out,
\*   "ok"      the stat file yields the counters maj and min.
ProcStates ==
    {[k |-> "absent", maj |-> 0, min |-> 0]}
    \cup {st \in [k : {"ok"}, maj : FaultValues, min : FaultValues] :
              st.maj + st.min <= MaxFault}

\* A read that gives the record back on a failure and links it all the same.
fault_get_by_proc_with_kept(s, a, pid, st, swap) ==
    IF st.k = "fail"
    THEN [m |-> fault_cache_free(a.m, a.p), head |-> a.p, npids |-> s.npids]
    ELSE [m |-> Pool([a.m.rec EXCEPT ![a.p] =
                        [ZeroRec EXCEPT !.min_fault = st.min,
                                        !.maj_fault = st.maj,
                                        !.pid = pid,
                                        !.next = s.head,
                                        !.vm_swap = swap[pid]]],
                     a.m.cache, a.m.nalloc),
          head |-> a.p, npids |-> s.npids + 1]

\* fault_get_by_proc once the record a.p is allocated: the stat file cannot be
\* read and the record goes back, or the record is filled in and prepended.
fault_get_by_proc_with(s, a, pid, st, swap) ==
    IF st.k = "fail"
    THEN [m |-> fault_cache_free(a.m, a.p), head |-> s.head, npids |-> s.npids]
    ELSE [m |-> Pool([a.m.rec EXCEPT ![a.p] =
                        [ZeroRec EXCEPT !.min_fault = st.min,
                                        !.maj_fault = st.maj,
                                        !.pid = pid,
                                        !.next = s.head,
                                        !.vm_swap = swap[pid]]],
                     a.m.cache, a.m.nalloc),
          head |-> a.p, npids |-> s.npids + 1]

\* fault_get_by_proc: s is [m, head, npids]; returns the same shape.
\* A kernel thread, or a process the allow-list leaves out ("skip"), is
\* counted and gets no record.
fault_get_by_proc(s, pid, st, swap) ==
    IF st.k = "skip" THEN [s EXCEPT !.npids = @ + 1]
    ELSE fault_get_by_proc_with(s, fault_cache_alloc(s.m), pid, st, swap)

\* fault_get_all_pids: /proc is read in ascending pid order.
RECURSIVE ScanFrom(_, _, _, _)
ScanFrom(s, pid, procs, swap) ==
    IF pid > NumPids THEN s
    ELSE IF procs[pid].k = "absent" THEN ScanFrom(s, pid + 1, procs, swap)
    ELSE ScanFrom(fault_get_by_proc(s, pid, procs[pid], swap), pid + 1, procs, swap)

fault_get_all_pids(m, head, procs, swap) ==
    ScanFrom([m |-> m, head |-> head, npids |-> 0], 1, procs, swap)

\* The sample list starting at p, as a sequence of record ids.
RECURSIVE ListOf(_, _, _)
ListOf(r, p, fuel) ==
    IF p = NULL \/ fuel = 0 THEN <<>>
    ELSE <<p>> \o ListOf(r, r[p].next, fuel - 1)

Observed(r, p) ==
    LET ids == ListOf(r, p, MaxRec)
    IN  [i \in 1..Len(ids) |->
            [pid |-> r[ids[i]].pid, maj |-> r[ids[i]].maj_fault,
             min |-> r[ids[i]].min_fault, swap |-> r[ids[i]].vm_swap]]

(* ---------------------------------------------------------------------- *)
(* The delta engine                                                        *)
(* ---------------------------------------------------------------------- *)
\* fault_delta: first record of the old list with the same pid, if any.
RECURSIVE fault_delta_from(_, _, _, _)
fault_delta_from(r, fnew, p, fuel) ==
    IF p = NULL \/ fuel = 0
    THEN [r EXCEPT ![fnew].d_min_fault = r[fnew].min_fault,
                   ![fnew].d_maj_fault = r[fnew].maj_fault]
    ELSE IF r[fnew].pid = r[p].pid
    THEN [r EXCEPT ![fnew].d_min_fault = r[fnew].min_fault - r[p].min_fault,
                   ![fnew].d_maj_fault = r[fnew].maj_fault - r[p].maj_fault,
                   ![p].alive = TRUE]
    ELSE fault_delta_from(r, fnew, r[p].next, fuel - 1)

\* Variant of fault_delta that does not mark the old record it matched.
fault_delta_unmarked(r, fnew, fault_old_list) ==
    [i \in DOMAIN r |->
        [fault_delta_from(r, fnew, fault_old_list, MaxRec)[i] EXCEPT !.alive = r[i].alive]]

\* Variant of fault_delta that never subtracts the old counters.
fault_delta_cumulative(r, fnew, fault_old_list) ==
    [r EXCEPT ![fnew].d_min_fault = r[fnew].min_fault,
              ![fnew].d_maj_fault = r[fnew].maj_fault]

\* Variant of fault_delta without the assignments after the loop: a record
\* that matches no old record keeps the deltas it was allocated with.
fault_delta_matched_only(r, fnew, fault_old_list) ==
    IF \E i \in 1..Len(ListOf(r, fault_old_list, MaxRec)) :
           r[ListOf(r, fault_old_list, MaxRec)[i]].pid = r[fnew].pid
    THEN fault_delta_from(r, fnew, fault_old_list, MaxRec)
    ELSE r

fault_delta(r, fnew, fault_old_list) ==
    fault_delta_from(r, fnew, fault_old_list, MaxRec)

(* ---------------------------------------------------------------------- *)
(* Sorting                                                                 *)
(* ---------------------------------------------------------------------- *)
\* compare: TRUE when f1 sorts strictly below f2 under the key sb.
compare(f1, f2, sb) ==
    CASE sb = SORT_MAJOR_MINOR ->
            f1.min_fault + f1.maj_fault < f2.min_fault + f2.maj_fault
      [] sb = SORT_MAJOR -> f1.maj_fault < f2.maj_fault
      [] sb = SORT_MINOR -> f1.min_fault < f2.min_fault
      [] sb = SORT_D_MAJOR_MINOR ->
            f1.d_min_fault + f1.d_maj_fault < f2.d_min_fault + f2.d_maj_fault
      [] sb = SORT_D_MAJOR -> f1.d_maj_fault < f2.d_maj_fault
      [] sb = SORT_D_MINOR -> f1.d_min_fault < f2.d_min_fault
      [] sb = SORT_SWAP -> f1.vm_swap < f2.vm_swap
      [] OTHER -> TRUE

\* *l = x, where l is &sorted (prev = NULL) or &prev->link.
StoreLink(c, prev, x, link) ==
    IF prev = NULL
    THEN [c EXCEPT !.sorted = x]
    ELSE [c EXCEPT !.rec = [c.rec EXCEPT ![prev][link] = x]]

\* for (l = &sorted; *l; l = &(*l)->link)
\*     if (compare(*l, x)) { x->link = *l; break; }
\* *l = x;
\* c is [rec, sorted, hang].  A walk that visits more nodes than there are
\* records is on a cycle that holds no smaller record: it never ends.
RECURSIVE InsertWalk(_, _, _, _, _, _)
InsertWalk(c, prev, x, link, sb, fuel) ==
    LET cur == IF prev = NULL THEN c.sorted ELSE c.rec[prev][link]
    IN  IF cur = NULL THEN StoreLink(c, prev, x, link)
        ELSE IF compare(c.rec[cur], c.rec[x], sb)
        THEN StoreLink([c EXCEPT !.rec = [c.rec EXCEPT ![x][link] = cur]],
                       prev, x, link)
        ELSE IF fuel = 0 THEN [c EXCEPT !.hang = TRUE]
        ELSE InsertWalk(c, cur, x, link, sb, fuel - 1)

InsertSorted(c, x, link, sb) == InsertWalk(c, NULL, x, link, sb, MaxRec)

(* ---------------------------------------------------------------------- *)
(* Number formatting (utils.c)                                             *)
(* ---------------------------------------------------------------------- *)
\* "%6.0f": the quotient v / d rounded to the nearest integer, ties to even.
RoundDiv(v, d) ==
    LET q == v \div d
        r2 == 2 * (v % d)
    IN  IF r2 > d \/ (r2 = d /\ q % 2 = 1) THEN q + 1 ELSE q

\* int64_to_str: the digits and the unit character of the rendered field.
int64_to_str(val) ==
    LET pos_val == IF val < 0 THEN 0 ELSE val
    IN  IF pos_val < 1000000 THEN [s |-> pos_val, unit |-> " "]
        ELSE IF pos_val < 1000000000 THEN [s |-> RoundDiv(pos_val, 1000), unit |-> "k"]
        ELSE IF pos_val \div 1000 < 1000000000    \* pos_val < 10^12, in 32-bit terms
        THEN [s |-> RoundDiv(pos_val, 1000000), unit |-> "M"]
        ELSE [s |-> RoundDiv(pos_val, 1000000000), unit |-> "G"]

\* A column the line does not have.
NoColumn == [s |-> -1, unit |-> "-"]

(* ---------------------------------------------------------------------- *)
(* The display abstraction (df_printf)                                     *)
(* ---------------------------------------------------------------------- *)
\* A display state is [df, rows, cury].  faultstat_top_printf drops the line
\* when cury >= rows and counts the newlines it wrote; faultstat_normal_printf
\* writes every line.  Lines are taken to fit the terminal width.
Shows(d) == d.df = "normal" \/ d.cury < d.rows

AfterLine(d, newlines) ==
    IF d.df = "top" /\ d.cury < d.rows
    THEN [d EXCEPT !.cury = d.cury + newlines]
    ELSE d

(* ---------------------------------------------------------------------- *)
(* The dump functions                                                      *)
(* ---------------------------------------------------------------------- *)
\* The locals of a dump: the heap, the head of the sorted chain, the running
\* totals, and whether a loop of the dump failed to end.
DumpStart(r) ==
    [rec |-> r, sorted |-> NULL, hang |-> FALSE,
     t_min_fault |-> 0, t_maj_fault |-> 0,
     t_d_min_fault |-> 0, t_d_maj_fault |-> 0, t_vm_swap |-> 0]

InsertCtx(c) == [rec |-> c.rec, sorted |-> c.sorted, hang |-> c.hang]

WithInsert(c, i) == [c EXCEPT !.rec = i.rec, !.sorted = i.sorted, !.hang = i.hang]

\* Variant of AddNew that leaves the delta totals alone.
AddNewCountersOnly(c, f) ==
    [c EXCEPT !.t_min_fault = @ + f.min_fault,
              !.t_maj_fault = @ + f.maj_fault,
              !.t_vm_swap = @ + f.vm_swap]

\* t_min_fault += fi->min_fault; ... for a record of the new list.
AddNew(c, f) ==
    [c EXCEPT !.t_min_fault = @ + f.min_fault,
              !.t_maj_fault = @ + f.maj_fault,
              !.t_d_min_fault = @ + f.d_min_fault,
              !.t_d_maj_fault = @ + f.d_maj_fault,
              !.t_vm_swap = @ + f.vm_swap]

\* A record of the new list once the insertion loop has placed it (i is the
\* outcome of the insertion): its fields enter the totals.
NewLinked(c, i, p) ==
    IF i.hang THEN WithInsert(c, i) ELSE AddNew(WithInsert(c, i), i.rec[p])

\* One iteration of the first loop after fault_delta: in mode "diff" a record
\* whose combined delta is zero is skipped before it is linked or totalled.
NewStep(c, p, mode, sb) ==
    IF mode = "diff" /\ c.rec[p].d_min_fault + c.rec[p].d_maj_fault = 0
    THEN c
    ELSE NewLinked(c, InsertSorted(InsertCtx(c), p,
                                   IF mode = "diff" THEN "d_next" ELSE "s_next", sb), p)

\* First loop of fault_dump and fault_dump_json (mode "full", "json": chain on
\* s_next) and of fault_dump_diff (mode "diff": chain on d_next).
RECURSIVE NewPass(_, _, _, _, _, _)
NewPass(c, p, old, mode, sb, fuel) ==
    IF p = NULL \/ fuel = 0 \/ c.hang THEN c
    ELSE NewPass(NewStep([c EXCEPT !.rec = fault_delta(c.rec, p, old)], p, mode, sb),
                 c.rec[p].next, old, mode, sb, fuel - 1)

\* A died record once the insertion loop has placed it: fault_dump (sign 1)
\* adds its counters to the running totals, fault_dump_diff (sign -1)
\* subtracts them; both negate them into the deltas and zero them.
DiedLinked(c, i, p, sign) ==
    IF i.hang THEN WithInsert(c, i)
    ELSE [WithInsert(c, i) EXCEPT
             !.t_min_fault = @ + sign * i.rec[p].min_fault,
             !.t_maj_fault = @ + sign * i.rec[p].maj_fault,
             !.t_d_min_fault = @ - i.rec[p].min_fault,
             !.t_d_maj_fault = @ - i.rec[p].maj_fault,
             !.rec = [i.rec EXCEPT ![p].d_min_fault = -i.rec[p].min_fault,
                                   ![p].d_maj_fault = -i.rec[p].maj_fault,
                                   ![p].min_fault = 0,
                                   ![p].maj_fault = 0]]

\* Second loop of fault_dump (mode "full") and fault_dump_diff (mode "diff"):
\* the records of the old list that no new record matched.  Both walk the
\* chain on d_next.
RECURSIVE DiedPass(_, _, _, _, _)
DiedPass(c, p, mode, sb, fuel) ==
    IF p = NULL \/ fuel = 0 \/ c.hang THEN c
    ELSE DiedPass(IF c.rec[p].alive THEN c
                  ELSE DiedLinked(c, InsertSorted(InsertCtx(c), p, "d_next", sb), p,
                                  IF mode = "full" THEN 1 ELSE -1),
                  c.rec[p].next, mode, sb, fuel - 1)

\* The arrow column of fault_dump.
Arrow(f, flags) ==
    LET delta == f.d_min_fault + f.d_maj_fault
    IN  IF "ARROW" \notin flags THEN ""
        ELSE IF delta < 0 THEN "v" ELSE IF delta > 0 THEN "^ " ELSE "  "

\* One line of a human-readable table, as rendered.
HumanRow(f, one_shot, flags) ==
    [pid |-> f.pid,
     major |-> int64_to_str(f.maj_fault),
     minor |-> int64_to_str(f.min_fault),
     deltaMajor |-> IF one_shot THEN NoColumn ELSE int64_to_str(f.d_maj_fault),
     deltaMinor |-> IF one_shot THEN NoColumn ELSE int64_to_str(f.d_min_fault),
     swap |-> int64_to_str(f.vm_swap),
     arrow |-> IF one_shot THEN "" ELSE Arrow(f, flags)]

\* One object of the JSON processes array.
JsonRow(f) ==
    [pid |-> f.pid, major |-> f.maj_fault, minor |-> f.min_fault,
     deltaMajor |-> f.d_maj_fault, deltaMinor |-> f.d_min_fault,
     swap |-> f.vm_swap, arrow |-> ""]

\* What a print loop has written: w is
\* [d (display state), rows, ids (records of the rows written),
\*  emitted (records handed to df_printf), rec, hang].
PrintStart(d, r) ==
    [d |-> d, rows |-> <<>>, ids |-> <<>>, emitted |-> <<>>, rec |-> r, hang |-> FALSE]

WriteRow(w, p, row) ==
    [w EXCEPT !.rows = IF Shows(w.d) THEN Append(@, row) ELSE @,
              !.ids = IF Shows(w.d) THEN Append(@, p) ELSE @,
              !.emitted = Append(@, p),
              !.d = AfterLine(w.d, 1)]

\* Print loop of fault_dump: follows s_next and changes no record.  A chain
\* longer than the heap is a cycle: the loop writes rows for ever.
RECURSIVE PrintSorted(_, _, _, _, _)
PrintSorted(w, p, one_shot, flags, fuel) ==
    IF p = NULL THEN w
    ELSE IF fuel = 0 THEN [w EXCEPT !.hang = TRUE]
    ELSE PrintSorted(WriteRow(w, p, HumanRow(w.rec[p], one_shot, flags)),
                     w.rec[p].s_next, one_shot, flags, fuel - 1)

\* Print loop of fault_dump_diff: follows d_next and clears it behind itself.
RECURSIVE PrintDeltas(_, _, _, _)
PrintDeltas(w, p, flags, fuel) ==
    IF p = NULL \/ fuel = 0 THEN w
    ELSE PrintDeltas([WriteRow(w, p, [HumanRow(w.rec[p], FALSE, flags) EXCEPT !.arrow = ""])
                         EXCEPT !.rec = [w.rec EXCEPT ![p].d_next = NULL]],
                     w.rec[p].d_next, flags, fuel - 1)

\* Print loop of fault_dump_json: printf, not the display.
RECURSIVE PrintJson(_, _, _)
PrintJson(w, p, fuel) ==
    IF p = NULL THEN w
    ELSE IF fuel = 0 THEN [w EXCEPT !.hang = TRUE]
    ELSE PrintJson([w EXCEPT !.rows = Append(@, JsonRow(w.rec[p])),
                             !.ids = Append(@, p),
                             !.emitted = Append(@, p)],
                   w.rec[p].s_next, fuel - 1)

NoOutput ==
    [kind |-> "none", heading |-> FALSE, rows |-> <<>>, ids |-> <<>>, emitted |-> <<>>,
     totals |-> [major |-> NoColumn, minor |-> NoColumn, deltaMajor |-> NoColumn,
                 deltaMinor |-> NoColumn, swap |-> NoColumn],
     totals_printed |-> FALSE,
     acc |-> [t_min_fault |-> 0, t_maj_fault |-> 0,
              t_d_min_fault |-> 0, t_d_maj_fault |-> 0],
     hang |-> FALSE]

Acc(c) ==
    [t_min_fault |-> c.t_min_fault, t_maj_fault |-> c.t_maj_fault,
     t_d_min_fault |-> c.t_d_min_fault, t_d_maj_fault |-> c.t_d_maj_fault]

\* The result of a dump: the heap it leaves, what it wrote, the display row.
DumpResult(r, o, cy) == [rec |-> r, out |-> o, cury |-> cy]

\* A dump whose sorting loops did not end.
DumpHung(c, kind, d) ==
    DumpResult(c.rec, [NoOutput EXCEPT !.kind = kind, !.hang = TRUE, !.acc = Acc(c)],
               d.cury)

\* A human-readable dump after its print loop w: the totals line.
HumanWritten(c, w, kind, d) ==
    DumpResult(w.rec,
       [kind |-> kind, heading |-> Shows(d),
        rows |-> w.rows, ids |-> w.ids, emitted |-> w.emitted,
        totals |-> [major |-> int64_to_str(c.t_maj_fault),
                    minor |-> int64_to_str(c.t_min_fault),
                    deltaMajor |-> IF kind = "oneshot" THEN NoColumn
                                   ELSE int64_to_str(c.t_d_maj_fault),
                    deltaMinor |-> IF kind = "oneshot" THEN NoColumn
                                   ELSE int64_to_str(c.t_d_min_fault),
                    swap |-> NoColumn],
        totals_printed |-> ~w.hang /\ Shows(w.d),
        acc |-> Acc(c),
        hang |-> w.hang],
       AfterLine(w.d, 2).cury)

\* The JSON document after its print loop w.
JsonWritten(c, w, d) ==
    DumpResult(w.rec,
       [kind |-> "json", heading |-> FALSE,
        rows |-> w.rows, ids |-> w.ids, emitted |-> w.emitted,
        totals |-> [major |-> c.t_maj_fault, minor |-> c.t_min_fault,
                    deltaMajor |-> c.t_d_maj_fault,
                    deltaMinor |-> c.t_d_min_fault,
                    swap |-> c.t_vm_swap],
        totals_printed |-> ~w.hang,
        acc |-> Acc(c),
        hang |-> w.hang],
       d.cury)

\* fault_dump after its two sorting loops: heading, rows, totals.
fault_dump_print(c, one_shot, flags, d) ==
    IF c.hang THEN DumpHung(c, IF one_shot THEN "oneshot" ELSE "full", d)
    ELSE HumanWritten(c, PrintSorted(PrintStart(AfterLine(d, 1), c.rec), c.sorted,
                                     one_shot, flags, MaxRec),
                      IF one_shot THEN "oneshot" ELSE "full", d)

\* fault_dump
fault_dump(r, fault_old, fault_new, one_shot, sb, flags, d) ==
    fault_dump_print(
        DiedPass(NewPass(DumpStart(r), fault_new, fault_old, "full", sb, MaxRec),
                 fault_old, "full", sb, MaxRec),
        one_shot, flags, d)

\* fault_dump_diff after its two sorting loops.
fault_dump_diff_print(c, flags, d) ==
    IF c.hang THEN DumpHung(c, "diff", d)
    ELSE HumanWritten(c, PrintDeltas(PrintStart(AfterLine(d, 1), c.rec), c.sorted,
                                     flags, 2 * MaxRec + 2),
                      "diff", d)

\* fault_dump_diff
fault_dump_diff(r, fault_old, fault_new, sb, flags, d) ==
    fault_dump_diff_print(
        DiedPass(NewPass(DumpStart(r), fault_new, fault_old, "diff", sb, MaxRec),
                 fault_old, "diff", sb, MaxRec),
        flags, d)

\* fault_dump_json after its sorting loop.
fault_dump_json_print(c, d) ==
    IF c.hang THEN DumpHung(c, "json", d)
    ELSE JsonWritten(c, PrintJson(PrintStart(d, c.rec), c.sorted, MaxRec), d)

\* fault_dump_json
fault_dump_json(r, fault_old, fault_new, sb, d) ==
    fault_dump_json_print(
        NewPass(DumpStart(r), fault_new, fault_old, "json", sb, MaxRec), d)

(* ---------------------------------------------------------------------- *)
(* main                                                                    *)
(* ---------------------------------------------------------------------- *)
\* The command lines the model starts from: the option flags, count and
\* forever as main leaves them after option parsing.
CommandLines ==
    {[flags |-> {}, count |-> 0, forever |-> TRUE],                  \* no argument
     [flags |-> {"JSON", "ONCE"}, count |-> 2, forever |-> FALSE],   \* -j
     [flags |-> {}, count |-> -1, forever |-> TRUE],                 \* duration
     [flags |-> {}, count |-> 1, forever |-> FALSE],                 \* duration 1
     [flags |-> {"TOP"}, count |-> -1, forever |-> TRUE],            \* -t
     [flags |-> {"TOP", "TOP_TOTAL"}, count |-> -1, forever |-> TRUE]} \* -T

Keys == {"none", "q", "t", "s", "other"}

Toggle(flags, f) == IF f \in flags THEN flags \ {f} ELSE flags \cup {f}

Display == [df |-> df, rows |-> rows, cury |-> cury]

ThePool == Pool(rec, fault_info_cache, nalloc)

Init ==
    /\ rec = [i \in RecIds |-> ZeroRec]
    /\ fault_info_cache = NULL
    /\ fault_info_old = NULL
    /\ fault_info_new = NULL
    /\ nalloc = 0
    /\ sort_by = SORT_MAJOR_MINOR
    /\ \E cl \in CommandLines :
          /\ opt_flags = cl.flags
          /\ count = cl.count
          /\ forever = cl.forever
    /\ stop_faultstat = FALSE
    /\ df = "normal"
    /\ rows = DefaultRows
    /\ cury = 0
    /\ pc = "main"
    /\ ticks = 0
    /\ vm_swap_of \in SwapTables
    /\ scan_old = <<>>
    /\ scan_new = <<>>
    /\ rec_scan = [i \in RecIds |-> ZeroRec]
    /\ out = NoOutput
    /\ AuxIdle

\* What a scan followed by a dump leaves in the variables.
Dumped(s, res, hungpc, donepc) ==
    /\ fault_info_cache' = s.m.cache
    /\ nalloc' = s.m.nalloc
    /\ fault_info_new' = s.head
    /\ scan_new' = Observed(s.m.rec, s.head)
    /\ rec_scan' = s.m.rec
    /\ rec' = res.rec
    /\ out' = res.out
    /\ cury' = res.cury
    /\ pc' = IF res.out.hang THEN hungpc ELSE donepc

\* The one-shot dump of a scan s.
OneShotScanned(s) ==
    Dumped(s, fault_dump(s.m.rec, fault_info_old, s.head, TRUE,
                         sort_by, opt_flags, Display), "hung", "restore")

\* count == 0: one scan, one fault_dump with an empty old list.
OneShot ==
    /\ pc = "main"
    /\ count = 0
    /\ \E procs \in [Pids -> ProcStates] :
          OneShotScanned(fault_get_all_pids(ThePool, fault_info_new, procs, vm_swap_of))
    /\ UNCHANGED <<fault_info_old, sort_by, opt_flags, stop_faultstat, forever, count,
                   df, rows, ticks, vm_swap_of, scan_old>>
    /\ UNCHANGED auxVars

\* The pool after the pre-cache scan s and the preallocation.
Preallocated(s, m) ==
    /\ rec' = m.rec
    /\ fault_info_cache' = m.cache
    /\ nalloc' = m.nalloc
    /\ fault_info_old' = s.head
    /\ scan_old' = Observed(s.m.rec, s.head)

StartupScanned(s) == Preallocated(s, fault_cache_prealloc(s.m, (s.npids * 5) \div 4))

\* count != 0: select the display, pre-cache scan into the old list,
\* preallocation, display setup.
Startup ==
    /\ pc = "main"
    /\ count # 0
    /\ df' = IF "TOP" \in opt_flags THEN "top" ELSE "normal"
    /\ rows' \in IF "TOP" \in opt_flags THEN TermRows ELSE {DefaultRows}
    /\ \E procs \in [Pids -> ProcStates] :
          StartupScanned(fault_get_all_pids(ThePool, fault_info_old, procs, vm_swap_of))
    /\ pc' = "loop"
    /\ UNCHANGED <<fault_info_new, sort_by, opt_flags, stop_faultstat, forever, count,
                   cury, ticks, vm_swap_of, scan_new, rec_scan, out>>
    /\ UNCHANGED auxVars

\* while (!stop_faultstat && (forever || count--)): the test succeeds.
LoopEnter ==
    /\ pc = "loop"
    /\ ~stop_faultstat
    /\ forever \/ count # 0
    /\ count' = IF forever THEN count ELSE count - 1
    /\ cury' = 0
    /\ pc' = "poll"
    /\ UNCHANGED <<rec, fault_info_cache, fault_info_old, fault_info_new, nalloc,
                   sort_by, opt_flags, stop_faultstat, forever, df, rows, ticks,
                   vm_swap_of, scan_old, scan_new, rec_scan, out>>
    /\ UNCHANGED auxVars

\* The test fails: the loop is left.
LoopExit ==
    /\ pc = "loop"
    /\ stop_faultstat \/ (~forever /\ count = 0)
    /\ count' = IF stop_faultstat THEN count ELSE count - 1
    /\ pc' = "free_cache"
    /\ UNCHANGED <<rec, fault_info_cache, fault_info_old, fault_info_new, nalloc,
                   sort_by, opt_flags, stop_faultstat, forever, df, rows, cury, ticks,
                   vm_swap_of, scan_old, scan_new, rec_scan, out>>
    /\ UNCHANGED auxVars

\* Keyboard polling: at most one pending key is read.
Poll ==
    /\ pc = "poll"
    /\ \E key \in Keys :
          /\ stop_faultstat' = (stop_faultstat \/ key = "q")
          /\ opt_flags' = IF key = "a" THEN Toggle(opt_flags, "ARROW")
                          ELSE IF key = "t" THEN Toggle(opt_flags, "TOP_TOTAL")
                          ELSE opt_flags
          /\ sort_by' = IF key = "s"
                        THEN (IF sort_by + 1 >= SORT_END THEN SORT_MAJOR_MINOR
                              ELSE sort_by + 1)
                        ELSE sort_by
    /\ pc' = "scan"
    /\ UNCHANGED <<rec, fault_info_cache, fault_info_old, fault_info_new, nalloc,
                   forever, count, df, rows, cury, ticks, vm_swap_of,
                   scan_old, scan_new, rec_scan, out>>
    /\ UNCHANGED auxVars

\* The dump selected by the option flags.
DumpOf(r, fault_new) ==
    IF "JSON" \in opt_flags
    THEN fault_dump_json(r, fault_info_old, fault_new, sort_by, Display)
    ELSE IF "TOP_TOTAL" \in opt_flags
    THEN fault_dump(r, fault_info_old, fault_new, FALSE, sort_by, opt_flags, Display)
    ELSE fault_dump_diff(r, fault_info_old, fault_new, sort_by, opt_flags, Display)

\* The dump of a scan s inside the loop.  An iteration is idle when the old
\* list is empty and the scan found no process; ticks counts the iterations
\* that are not idle, and MaxTicks bounds them.
SampleScanned(s) ==
    /\ (fault_info_old = NULL /\ s.head = NULL) \/ ticks < MaxTicks
    /\ ticks' = IF fault_info_old = NULL /\ s.head = NULL THEN ticks ELSE ticks + 1
    /\ Dumped(s, DumpOf(s.m.rec, s.head), "hung", "release")

\* fault_get_all_pids(&fault_info_new, &npids) inside the loop, the dump and
\* df_refresh.
Sample ==
    /\ pc = "scan"
    /\ \E procs \in [Pids -> ProcStates] :
          SampleScanned(fault_get_all_pids(ThePool, fault_info_new, procs, vm_swap_of))
    /\ UNCHANGED <<fault_info_old, sort_by, opt_flags, stop_faultstat, forever, count,
                   df, rows, vm_swap_of, scan_old>>
    /\ UNCHANGED auxVars

\* fault_cache_free_list(fault_info_old); the new list becomes the old one.
Release ==
    /\ pc = "release"
    /\ LET m == fault_cache_free_list(ThePool, fault_info_old)
       IN  /\ rec' = m.rec
           /\ fault_info_cache' = m.cache
    /\ fault_info_old' = fault_info_new
    /\ fault_info_new' = NULL
    /\ scan_old' = scan_new
    /\ scan_new' = <<>>
    /\ rec_scan' = [i \in RecIds |-> ZeroRec]
    /\ out' = NoOutput
    /\ pc' = "loop"
    /\ UNCHANGED <<nalloc, sort_by, opt_flags, stop_faultstat, forever, count,
                   df, rows, cury, ticks, vm_swap_of>>
    /\ UNCHANGED auxVars

\* free_cache: release the old list; then display_restore and the cache
\* cleanups, which hand the free list back to the allocator.
Cleanup ==
    /\ pc \in {"free_cache", "restore"}
    /\ fault_info_cache' = NULL
    /\ fault_info_old' = IF pc = "free_cache" THEN NULL ELSE fault_info_old
    /\ df' = "normal"
    /\ pc' = "done"
    /\ UNCHANGED <<rec, fault_info_new, nalloc, sort_by, opt_flags, stop_faultstat,
                   forever, count, rows, cury, ticks, vm_swap_of, scan_old, scan_new,
                   rec_scan, out>>
    /\ UNCHANGED auxVars

Next ==
    \/ OneShot
    \/ Startup
    \/ LoopEnter
    \/ LoopExit
    \/ Poll
    \/ Sample
    \/ Release
    \/ Cleanup

Spec == Init /\ [][Next]_vars

(* ---------------------------------------------------------------------- *)
(* What the scans observed, and what a dump should make of it              *)
(* ---------------------------------------------------------------------- *)
OldIds == ListOf(rec, fault_info_old, MaxRec)
NewIds == ListOf(rec, fault_info_new, MaxRec)

\* A dump has run on the pair (old list, new list) and returned.
DumpDone == pc \in {"release", "restore"}

PidsOf(scan) == {scan[i].pid : i \in DOMAIN scan}

OldSample(pid) == scan_old[CHOOSE j \in DOMAIN scan_old : scan_old[j].pid = pid]

\* The samples of the previous tick whose pid the new scan did not see.
DiedIdx == {j \in DOMAIN scan_old : scan_old[j].pid \notin PidsOf(scan_new)}

\* The deltas a new sample stands for: against the old sample of the same
\* pid, or against nothing.
DeltaMaj(i) ==
    IF scan_new[i].pid \in PidsOf(scan_old)
    THEN scan_new[i].maj - OldSample(scan_new[i].pid).maj
    ELSE scan_new[i].maj

DeltaMin(i) ==
    IF scan_new[i].pid \in PidsOf(scan_old)
    THEN scan_new[i].min - OldSample(scan_new[i].pid).min
    ELSE scan_new[i].min

RECURSIVE Sum(_)
Sum(q) == IF q = <<>> THEN 0 ELSE Head(q) + Sum(Tail(q))

SumNewMaj == Sum([i \in DOMAIN scan_new |-> scan_new[i].maj])
SumNewMin == Sum([i \in DOMAIN scan_new |-> scan_new[i].min])
SumDeltaMaj == Sum([i \in DOMAIN scan_new |-> DeltaMaj(i)])
SumDeltaMin == Sum([i \in DOMAIN scan_new |-> DeltaMin(i)])
SumDiedMaj == Sum([j \in DOMAIN scan_old |-> IF j \in DiedIdx THEN scan_old[j].maj ELSE 0])
SumDiedMin == Sum([j \in DOMAIN scan_old |-> IF j \in DiedIdx THEN scan_old[j].min ELSE 0])

\* A number as a human-readable table shows it when nothing is scaled.
Plain(v) == [s |-> v, unit |-> " "]

\* A total as the dump of the given kind writes it.
Shown(v) == IF out.kind = "json" THEN v ELSE int64_to_str(v)

(* ---------------------------------------------------------------------- *)
(* Properties                                                              *)
(* ---------------------------------------------------------------------- *)

\* C1: after the delta pass of a tick, a process present in the previous and
\* in the current sample set, whose counters went from (a, b) to (a', b')
\* with a' >= a and b' >= b, has the delta fields (a' - a, b' - b).
C1_ContinuingDelta ==
    DumpDone =>
        \A i \in DOMAIN scan_new : \A j \in DOMAIN scan_old :
            (/\ scan_new[i].pid = scan_old[j].pid
             /\ scan_new[i].maj >= scan_old[j].maj
             /\ scan_new[i].min >= scan_old[j].min)
            => /\ rec[NewIds[i]].d_maj_fault = scan_new[i].maj - scan_old[j].maj
               /\ rec[NewIds[i]].d_min_fault = scan_new[i].min - scan_old[j].min

\* A continuing process whose old counters were not all zero.
C1_Witness ==
    /\ DumpDone
    /\ \E i \in DOMAIN scan_new : \E j \in DOMAIN scan_old :
          /\ scan_new[i].pid = scan_old[j].pid
          /\ scan_old[j].maj + scan_old[j].min > 0
          /\ scan_new[i].maj >= scan_old[j].maj
          /\ scan_new[i].min >= scan_old[j].min
          /\ rec[NewIds[i]].d_maj_fault + rec[NewIds[i]].d_min_fault
                < scan_new[i].maj + scan_new[i].min

\* C3: a process of the current sample set whose pid the previous sample set
\* does not hold (always so when the previous set is empty, as in one-shot
\* mode) has deltas equal to its cumulative counters.
C3_NewProcessDelta ==
    DumpDone =>
        \A i \in DOMAIN scan_new :
            scan_new[i].pid \notin PidsOf(scan_old)
            => /\ rec[NewIds[i]].d_maj_fault = scan_new[i].maj
               /\ rec[NewIds[i]].d_min_fault = scan_new[i].min

\* A process with faults appears next to a non-empty previous sample set.
C3_Witness ==
    /\ pc = "release"
    /\ scan_old # <<>>
    /\ \E i \in DOMAIN scan_new :
          /\ scan_new[i].pid \notin PidsOf(scan_old)
          /\ scan_new[i].maj + scan_new[i].min > 0
          /\ rec[NewIds[i]].d_maj_fault = scan_new[i].maj
          /\ rec[NewIds[i]].d_min_fault = scan_new[i].min

\* C4: when no process of the previous sample set is missing from the
\* current one, a full, one-shot or JSON dump accumulates in each of its
\* four totals the sum of that field over all current records, and its
\* totals line writes exactly those sums.
C4_TotalsWithoutDeaths ==
    (/\ DumpDone
     /\ out.kind \in {"full", "oneshot", "json"}
     /\ out.totals_printed
     /\ DiedIdx = {})
    => /\ out.acc = [t_min_fault |-> SumNewMin, t_maj_fault |-> SumNewMaj,
                     t_d_min_fault |-> SumDeltaMin, t_d_maj_fault |-> SumDeltaMaj]
       /\ out.totals.major = Shown(SumNewMaj)
       /\ out.totals.minor = Shown(SumNewMin)
       /\ out.kind # "oneshot" =>
             /\ out.totals.deltaMajor = Shown(SumDeltaMaj)
             /\ out.totals.deltaMinor = Shown(SumDeltaMin)

\* A full dump over a continuing process that faulted and a new process.
C4_Witness ==
    /\ pc = "release"
    /\ out.kind = "full"
    /\ out.totals_printed
    /\ DiedIdx = {}
    /\ \E i, k \in DOMAIN scan_new :
          /\ scan_new[i].pid \in PidsOf(scan_old)
          /\ DeltaMaj(i) = 1
          /\ scan_new[k].pid \notin PidsOf(scan_old)
          /\ scan_new[k].min = 1
    /\ out.totals.deltaMajor = Plain(1)
    /\ out.totals.deltaMinor = Plain(1)

\* The new samples a dump accounts for in its totals: all of them, except
\* that a diff dump accounts only for those it prints.
AccountedIdx ==
    {i \in DOMAIN scan_new : out.kind # "diff" \/ DeltaMaj(i) + DeltaMin(i) # 0}

AccMaj == Sum([i \in DOMAIN scan_new |-> IF i \in AccountedIdx THEN scan_new[i].maj ELSE 0])
AccMin == Sum([i \in DOMAIN scan_new |-> IF i \in AccountedIdx THEN scan_new[i].min ELSE 0])

\* The display a dump of the current iteration starts on.
DisplayAtDump == [df |-> df, rows |-> rows, cury |-> 0]

\* A column of a written row as a number: the digits of a human-readable
\* column, the integer of a JSON member.
ColumnValue(x) == IF out.kind = "json" THEN x ELSE x.s

\* The value of the sort key sb as a written row shows it.
SortKey(row, sb) ==
    CASE sb = SORT_MAJOR_MINOR -> ColumnValue(row.minor) + ColumnValue(row.major)
      [] sb = SORT_MAJOR -> ColumnValue(row.major)
      [] sb = SORT_MINOR -> ColumnValue(row.minor)
      [] sb = SORT_D_MAJOR_MINOR -> ColumnValue(row.deltaMinor) + ColumnValue(row.deltaMajor)
      [] sb = SORT_D_MAJOR -> ColumnValue(row.deltaMajor)
      [] sb = SORT_D_MINOR -> ColumnValue(row.deltaMinor)
      [] OTHER -> ColumnValue(row.swap)

\* The position of a record in the new sample list (0: not in it).
NewPos(id) ==
    IF \E i \in DOMAIN NewIds : NewIds[i] = id
    THEN CHOOSE i \in DOMAIN NewIds : NewIds[i] = id
    ELSE 0

\* C2: in a human-readable dump on a display that drops no line, a process
\* that had counters (a, b) in the previous sample set and is absent from the
\* current one has a row showing major 0, minor 0, deltaMajor -a,
\* deltaMinor -b, and the delta totals include -a and -b.
C2_DiedRowShowsNegatedCounters ==
    (/\ pc = "release"
     /\ out.kind \in {"full", "diff"}
     /\ df = "normal")
    => /\ \A j \in DiedIdx :
            \E k \in DOMAIN out.rows :
                /\ out.rows[k].pid = scan_old[j].pid
                /\ out.rows[k].major = Plain(0)
                /\ out.rows[k].minor = Plain(0)
                /\ out.rows[k].deltaMajor = Plain(-scan_old[j].maj)
                /\ out.rows[k].deltaMinor = Plain(-scan_old[j].min)
       /\ out.acc.t_d_maj_fault =
             Sum([i \in DOMAIN scan_new |-> IF i \in AccountedIdx THEN DeltaMaj(i) ELSE 0])
                - SumDiedMaj
       /\ out.acc.t_d_min_fault =
             Sum([i \in DOMAIN scan_new |-> IF i \in AccountedIdx THEN DeltaMin(i) ELSE 0])
                - SumDiedMin

\* C5: in every human-readable dump the died processes take their last
\* counters off the delta totals and leave the running totals alone: the
\* running totals are the sums over the live processes the dump accounts for.
C5_DiedLeavesRunningTotals ==
    (/\ pc = "release"
     /\ out.kind \in {"full", "diff"})
    => /\ out.acc.t_maj_fault = AccMaj
       /\ out.acc.t_min_fault = AccMin
       /\ out.acc.t_d_maj_fault =
             Sum([i \in DOMAIN scan_new |-> IF i \in AccountedIdx THEN DeltaMaj(i) ELSE 0])
                - SumDiedMaj
       /\ out.acc.t_d_min_fault =
             Sum([i \in DOMAIN scan_new |-> IF i \in AccountedIdx THEN DeltaMin(i) ELSE 0])
                - SumDiedMin

\* C6: in the continuous full dump every record of the previous list that
\* the matching pass left unmarked is printed as a row, among the rows of
\* the records of the new list.
C6_FullDumpPrintsDied ==
    (/\ pc = "release"
     /\ out.kind = "full")
    => /\ \A k \in DOMAIN OldIds :
            ~rec[OldIds[k]].alive
            => \E e \in DOMAIN out.emitted : out.emitted[e] = OldIds[k]
       /\ \A k \in DOMAIN NewIds :
            \E e \in DOMAIN out.emitted : out.emitted[e] = NewIds[k]

\* C7: on the same pair of sample sets the diff dump computes the four totals
\* the full dump computes and writes the totals line the full dump writes.
C7_DiffTotalsAreFullTotals ==
    (/\ pc = "release"
     /\ out.kind = "diff")
    => LET full == fault_dump(rec_scan, fault_info_old, fault_info_new, FALSE,
                              sort_by, opt_flags, DisplayAtDump).out
       IN  ~full.hang =>
              /\ out.acc = full.acc
              /\ out.totals = full.totals

C9_JsonTotalsIncludeDied ==
    (/\ pc = "release"
     /\ out.kind = "json")
    => /\ Len(out.ids) = Len(NewIds)
       /\ \A k \in DOMAIN NewIds : \E e \in DOMAIN out.ids : out.ids[e] = NewIds[k]
       /\ \A e \in DOMAIN out.rows : out.rows[e].pid \in PidsOf(scan_new)
       /\ out.totals.deltaMajor = SumDeltaMaj - SumDiedMaj
       /\ out.totals.deltaMinor = SumDeltaMin - SumDiedMin

\* C10: whatever the sort key, the rows of a dump are in non-increasing order
\* of the key as the rows show it, and rows of the new list with equal keys
\* are in the order of the new list.
C10_RowsSorted ==
    (/\ pc = "release"
     /\ out.kind # "none")
    => /\ \A k \in 1..(Len(out.rows) - 1) :
            SortKey(out.rows[k], sort_by) >= SortKey(out.rows[k + 1], sort_by)
       /\ \A k, m \in DOMAIN out.rows :
            (/\ k < m
             /\ NewPos(out.ids[k]) # 0
             /\ NewPos(out.ids[m]) # 0
             /\ SortKey(out.rows[k], sort_by) = SortKey(out.rows[m], sort_by))
            => NewPos(out.ids[k]) < NewPos(out.ids[m])

(* ---------------------------------------------------------------------- *)
(* The -p allow-list and the filter of the sampler                         *)
(*                                                                         *)
(* A C string is the sequence of its characters; the terminating NUL is    *)
(* the position after the last one.                                        *)
(* ---------------------------------------------------------------------- *)
Code(c) ==
    CASE c = " " -> 32 [] c = "." -> 46 [] c = "/" -> 47 [] c = "2" -> 50
      [] c = "4" -> 52 [] c = ":" -> 58 [] c = "a" -> 97 [] c = "b" -> 98
      [] c = "d" -> 100 [] c = "h" -> 104 [] c = "s" -> 115 [] c = "u" -> 117

CharAt(s, i) == IF i <= Len(s) THEN Code(s[i]) ELSE 0

isdigit(c) == c >= 48 /\ c <= 57

strchr(s, c) == \E i \in 1..Len(s) : Code(s[i]) = c

\* strtol(token, NULL, 10) of a token that starts with a digit.
RECURSIVE strtol_from(_, _, _)
strtol_from(s, i, acc) ==
    IF isdigit(CharAt(s, i))
    THEN strtol_from(s, i + 1, acc * 10 + (CharAt(s, i) - 48))
    ELSE acc

strtol(s) == strtol_from(s, 1, 0)

\* basename() of libgen.h: trailing slashes are dropped, then everything up
\* to the last slash.
RECURSIVE StripSlashes(_)
StripSlashes(s) ==
    IF s # <<>> /\ s[Len(s)] = "/"
    THEN StripSlashes(SubSeq(s, 1, Len(s) - 1))
    ELSE s

RECURSIVE LastComponent(_, _)
LastComponent(s, i) ==
    IF i = 0 \/ s[i] = "/"
    THEN SubSeq(s, i + 1, Len(s))
    ELSE LastComponent(s, i - 1)

basename(s) ==
    IF s = <<>> THEN <<".">>
    ELSE IF StripSlashes(s) = <<>> THEN <<"/">>
    ELSE LastComponent(StripSlashes(s), Len(StripSlashes(s)))

\* A comparison that wants the two names equal to their ends.
procnamecmp_exact(s1, s2) == IF s1 = s2 THEN 0 ELSE 1

\* procnamecmp(): the loop stops with 0 as soon as s1 ends or has a space;
\* s2 is never tested for its end or for a space.
RECURSIVE procnamecmp_from(_, _, _)
procnamecmp_from(s1, s2, i) ==
    IF CharAt(s1, i) = 0 \/ CharAt(s1, i) = 32 THEN 0
    ELSE IF CharAt(s1, i) = CharAt(s2, i) THEN procnamecmp_from(s1, s2, i + 1)
    ELSE CharAt(s1, i) - CharAt(s2, i)

procnamecmp(s1, s2) == procnamecmp_from(s1, s2, 1)

\* parse_pid_list(): a token that starts with a digit is a pid, entered once;
\* any other token is a name, entered with pid 0.
\* strtok() never yields an empty token, so the empty name stands for the
\* NULL name of a pid entry.
NoName == <<>>
PidEntry(pid) == [pid |-> pid, name |-> NoName]
NameEntry(token) == [pid |-> 0, name |-> token]

HasPid(pl, pid) == \E i \in 1..Len(pl) : pl[i].pid = pid

parse_token(pl, token) ==
    IF isdigit(CharAt(token, 1))
    THEN (IF HasPid(pl, strtol(token)) THEN pl
          ELSE <<PidEntry(strtol(token))>> \o pl)
    ELSE <<NameEntry(token)>> \o pl

RECURSIVE parse_pid_list(_, _)
parse_pid_list(pl, tokens) ==
    IF tokens = <<>> THEN pl
    ELSE parse_pid_list(parse_token(pl, Head(tokens)), Tail(tokens))

\* The allow-list loop of fault_get_by_proc(): TRUE when the loop breaks on
\* an entry, FALSE when it runs off the end of the list.
RECURSIVE ListedFrom(_, _, _, _)
ListedFrom(pl, i, pid, cmdline) ==
    IF i > Len(pl) THEN FALSE
    ELSE IF pl[i].pid = pid THEN TRUE
    ELSE IF pl[i].name # NoName
            /\ procnamecmp(pl[i].name,
                           IF strchr(pl[i].name, 47) THEN cmdline
                           ELSE basename(cmdline)) = 0
         THEN TRUE
    ELSE ListedFrom(pl, i + 1, pid, cmdline)

Listed(pl, pid, cmdline) == pl = <<>> \/ ListedFrom(pl, 1, pid, cmdline)

\* Tokens of -p arguments, pids and cached command lines of scanned processes.
Tok4242 == <<"4", "2", "4", "2">>
TokSshd == <<"s", "s", "h", "d">>
TokSs == <<"s", "s">>
TokPath == <<"/", "u", "/", "s", "s", "h", "d">>
TokSpaced == <<"s", "s", " ", "h">>
TokBa == <<"b", "a">>
Tokens == {Tok4242, TokSshd, TokSs, TokPath, TokSpaced, TokBa}
OptArgs == {<<tk>> : tk \in Tokens} \cup {<<TokSshd, Tok4242>>, <<Tok4242, Tok4242>>}
ArgLists == {<<a>> : a \in OptArgs} \cup {<<a, b>> : a \in OptArgs, b \in OptArgs}

CmdSshdSession == <<"s", "s", "h", "d", ":", " ", "s">>
CmdBash == <<"b", "a", "s", "h">>
Cmdlines == {CmdSshdSession, CmdBash, TokSshd, TokSs, TokPath,
             <<"/", "u", "/", "b", "a", "s", "h">>, <<"s", "h">>}
ScanPids == {100, 4242}

\* The sample lists, the pool and the dump output as their initialisers
\* leave them.
dataVars == <<rec, fault_info_cache, fault_info_old, fault_info_new, nalloc, sort_by,
              cury, vm_swap_of, scan_old, scan_new, rec_scan, out>>
DataIdle ==
    /\ rec = [i \in RecIds |-> ZeroRec]
    /\ fault_info_cache = NULL
    /\ fault_info_old = NULL
    /\ fault_info_new = NULL
    /\ nalloc = 0
    /\ sort_by = SORT_MAJOR_MINOR
    /\ cury = 0
    /\ vm_swap_of \in SwapTables
    /\ scan_old = <<>>
    /\ scan_new = <<>>
    /\ rec_scan = [i \in RecIds |-> ZeroRec]
    /\ out = NoOutput

\* The globals of main as their initialisers leave them.
MainIdle ==
    /\ DataIdle
    /\ opt_flags = {}
    /\ count = 0
    /\ forever = FALSE
    /\ stop_faultstat = FALSE
    /\ df = "normal"
    /\ rows = DefaultRows
    /\ ticks = 0

InitFilter ==
    /\ MainIdle
    /\ pc = "getopt"
    /\ pids = <<>>
    /\ argv \in ArgLists
    /\ probe = NoProbe
    /\ RunIdle
    /\ CacheIdle
    /\ PoolIdle
    /\ RestIdle

\* case 'p' of the option loop: one -p argument is parsed into pids.
ParsePidList ==
    /\ pc = "getopt"
    /\ argv # <<>>
    /\ pids' = parse_pid_list(pids, Head(argv))
    /\ argv' = Tail(argv)
    /\ pc' = IF Tail(argv) = <<>> THEN "scan" ELSE "getopt"
    /\ probe' = probe
    /\ UNCHANGED <<mainVars, runVars, cacheVars, poolVars, restVars>>

\* fault_get_by_proc() on a live user process whose stat and status files
\* read well: it links a sample exactly when the allow-list loop breaks.
FilterProc ==
    /\ pc = "scan"
    /\ \E pid \in ScanPids, cmdline \in Cmdlines :
          probe' = [pid |-> pid, cmdline |-> cmdline,
                    sampled |-> Listed(pids, pid, cmdline)]
    /\ UNCHANGED <<mainVars, runVars, cacheVars, poolVars, restVars, pc, pids, argv>>

NextFilter ==
    \/ ParsePidList
    \/ FilterProc

SpecFilter == InitFilter /\ [][NextFilter]_vars

\* The first word of a name, a prefix test and the part after the last slash.
FirstSpace(s) ==
    IF \E i \in 1..Len(s) : s[i] = " "
    THEN CHOOSE i \in 1..Len(s) : s[i] = " " /\ \A j \in 1..(i - 1) : s[j] # " "
    ELSE Len(s) + 1

UpToSpace(s) == SubSeq(s, 1, FirstSpace(s) - 1)

IsPrefix(w, x) == Len(w) <= Len(x) /\ SubSeq(x, 1, Len(w)) = w

AfterLastSlash(s) ==
    IF \E i \in 1..Len(s) : s[i] = "/"
    THEN SubSeq(s, (CHOOSE i \in 1..Len(s) :
                       s[i] = "/" /\ \A j \in (i + 1)..Len(s) : s[j] # "/") + 1, Len(s))
    ELSE s

\* The name a filter term is compared with.
DisplayName(term, cmdline) ==
    IF \E i \in 1..Len(term) : term[i] = "/" THEN cmdline ELSE AfterLastSlash(cmdline)

Probed == pc = "scan" /\ probe # NoProbe /\ pids # <<>>
PidListed == \E i \in 1..Len(pids) : pids[i].pid = probe.pid

\* C11 (as amended): with an allow-list, a scanned process yields a sample
\* exactly when its pid is listed or a listed name, taken up to its own end
\* or first space, is a prefix of the process's display name (its basename
\* when the listed name has no path separator).
C11_ListedByPidOrNamePrefix ==
    Probed =>
        (probe.sampled <=>
            \/ PidListed
            \/ \E i \in 1..Len(pids) :
                  /\ pids[i].name # NoName
                  /\ IsPrefix(UpToSpace(pids[i].name),
                              DisplayName(pids[i].name, probe.cmdline)))

\* C11 witness: with the allow-list sshd,4242 the process 100 named
\* "sshd: s" is sampled, through the name entry.
C11_Witness ==
    /\ Probed
    /\ pids = <<PidEntry(4242), NameEntry(TokSshd)>>
    /\ probe.pid = 100
    /\ probe.cmdline = CmdSshdSession
    /\ probe.sampled

\* C11 (as stated): a process is sampled exactly when its pid is listed or
\* its display name, taken up to its first space, equals a listed name.
C11_ListedByPidOrNameEqual ==
    Probed =>
        (probe.sampled <=>
            \/ PidListed
            \/ \E i \in 1..Len(pids) :
                  /\ pids[i].name # NoName
                  /\ UpToSpace(DisplayName(pids[i].name, probe.cmdline)) = pids[i].name)

(* ---------------------------------------------------------------------- *)
(* The run of main with count != 0: display set-up and teardown, failure   *)
(* reports, signals and the inter-sample wait.  The scans and the dumps    *)
(* are reduced to their outcome; times are in units of 1/UnitsPerSecond s. *)
(* ---------------------------------------------------------------------- *)
MaxClock == 24
MaxWork == 5
MaxOom == 1

HalfSecond == UnitsPerSecond \div 2
Durations == {UnitsPerSecond, 2 * UnitsPerSecond}
WinRows == {DefaultRows, 2 * DefaultRows}
ScanOutcomes == {"ok", "opendir", "oom"}
Signals == {"SIGINT", "SIGWINCH"}
\* How long a scan and a dump take, and when a signal cuts a wait of rem units.
WorkTimes == {0, 3, MaxWork}
InterruptTimes(rem) == {0, 1, rem} \cap 0..rem

\* The display and standard error as one value.
Screen ==
    [df |-> df, curses |-> curses, endwins |-> endwins, restored |-> restored,
     resized |-> resized, rows |-> rows, stderr |-> stderr]

SetScreen(s) ==
    /\ df' = s.df
    /\ curses' = s.curses
    /\ endwins' = s.endwins
    /\ restored' = s.restored
    /\ resized' = s.resized
    /\ rows' = s.rows
    /\ stderr' = s.stderr

\* df.df_winsize(true): both displays query the tty.
df_winsize(s, ws) == [s EXCEPT !.rows = ws]

\* df.df_setup(): initscr() in top mode, nothing otherwise.
df_setup(s) == IF s.df = "top" THEN [s EXCEPT !.curses = "on"] ELSE s

\* df.df_endwin(): faultstat_top_endwin() in top mode, nothing otherwise.
df_endwin(s, ws) ==
    IF s.df = "top"
    THEN [df_winsize(s, ws) EXCEPT !.resized = FALSE,
                                   !.endwins = @ + 1,
                                   !.curses = IF @ = "on" THEN "ended" ELSE @]
    ELSE s

\* A restore that leaves the interactive display selected.
display_restore_keeps_df(s, ws) == [df_endwin(s, ws) EXCEPT !.restored = TRUE]

display_restore(s, ws) ==
    [df_endwin(s, ws) EXCEPT !.df = "normal", !.restored = TRUE]

\* A message on standard error, with the state of the screen it lands on.
fprintf_stderr(s, msg, tick) ==
    [s EXCEPT !.stderr = @ \cup {[msg |-> msg, screen |-> s.curses,
                                  restored |-> s.restored, tick |-> tick]}]

\* A report that writes before it restores.
out_of_memory_report_first(s, ws, tick) ==
    display_restore(fprintf_stderr(s, "Out of memory", tick), ws)

out_of_memory(s, ws, tick) ==
    fprintf_stderr(display_restore(s, ws), "Out of memory", tick)

\* The failure branch of gettime_to_double().
gettime_to_double_failed(s, ws, tick) ==
    fprintf_stderr(display_restore(s, ws), "gettimeofday failed", tick)

\* What fault_get_all_pids() does to the screen: opendir fails, or an
\* allocation under fault_get_by_proc() fails, or neither.
ScanScreen(s, scan, ws, tick) ==
    IF scan = "opendir"
    THEN fprintf_stderr(display_restore(s, ws), "Cannot read directory /proc", tick)
    ELSE IF scan = "oom" THEN out_of_memory(s, ws, tick)
    ELSE s

\* At most MaxOom allocation failures in a run.
ScanOutcomesNow ==
    IF Cardinality({m \in stderr : m.msg = "Out of memory"}) < MaxOom
    THEN ScanOutcomes
    ELSE ScanOutcomes \ {"oom"}

\* double_to_timeval() and timeval_to_double().
double_to_timeval(val) ==
    [tv_sec |-> val \div UnitsPerSecond,
     tv_usec |-> (val % UnitsPerSecond) * (1000000 \div UnitsPerSecond)]

timeval_to_double(x) ==
    x.tv_sec * UnitsPerSecond + (x.tv_usec * UnitsPerSecond) \div 1000000

\* ceil(a / b) of a positive a.
CeilDiv(a, b) == (a + b - 1) \div b

\* A catch-up that never pads.
PaddedNever(secs, dur) == secs

\* if (secs < 0.5) secs += duration_secs;
Padded(secs, dur) == IF secs < HalfSecond THEN secs + dur ELSE secs

\* A wait of one interval from now.
NextWaitFromNow(start, now, tt, dur, rd) == [t |-> tt + 1, secs |-> dur]

\* The tick counter and the wait that main computes at the top of the loop.
NextWait(start, now, tt, dur, rd) ==
    IF start + tt * dur - now < 0
    THEN [t |-> CeilDiv(now - start, dur),
          secs |-> Padded(start + CeilDiv(now - start, dur) * dur - now, dur)]
    ELSE [t |-> IF rd THEN tt ELSE tt + 1,
          secs |-> start + tt * dur - now]

\* A loop test that does not look at the stop flag.
LoopIgnoresStop(stop, fv, cnt) == fv \/ cnt # 0

\* A loop test that decrements before it tests: --count.
LoopCountsFirst(stop, fv, cnt) == ~stop /\ (fv \/ cnt - 1 # 0)

\* while (!stop_faultstat && (forever || count--))
LoopContinues(stop, fv, cnt) == ~stop /\ (fv \/ cnt # 0)

\* An interrupted wait that always stops the run.
StopOnEintrAlways(rsz) == TRUE

\* errno == EINTR: if (!resized) stop_faultstat = true;
StopOnEintr(rsz) == ~rsz

\* What no action of the run touches.
fixedVars == <<dataVars, filterVars, cacheVars, poolVars, restVars, opt_flags, forever,
               duration_secs>>

\* The stop flag becomes stop1 while main is at its present position.
Stopped(stop1) ==
    /\ stop_faultstat' = stop1
    /\ stop_at' = IF ~stop_faultstat /\ stop1 THEN [pc |-> pc, tick |-> ticks]
                  ELSE stop_at

\* The count of the finite runs.
FiniteCount == 2

InitRun ==
    /\ DataIdle
    /\ FilterIdle
    /\ CacheIdle
    /\ PoolIdle
    /\ RestIdle
    /\ opt_flags \in {{}, {"TOP"}}
    /\ \E cl \in {[forever |-> TRUE, count |-> -1],
                   [forever |-> FALSE, count |-> FiniteCount]} :
          /\ forever = cl.forever
          /\ count = cl.count
    /\ stop_faultstat = FALSE
    /\ df = "normal"
    /\ rows = DefaultRows
    /\ ticks = 0
    /\ pc = "main"
    /\ clock = 0
    /\ term_rows = DefaultRows
    /\ duration_secs \in Durations
    /\ time_start = 0
    /\ time_now = 0
    /\ t = 1
    /\ redo = FALSE
    /\ resized = FALSE
    /\ tv = double_to_timeval(0)
    /\ deadline = 0
    /\ curses = "off"
    /\ endwins = 0
    /\ restored = FALSE
    /\ stderr = {}
    /\ exit_status = "none"
    /\ stop_at = NoStop

\* The rest of the start-up after the pre-cache scan left the screen as s.
StartedRun(s, scan, step) ==
    IF scan = "opendir"
    THEN /\ SetScreen(s)
         /\ pc' = "free_cache"
         /\ UNCHANGED <<time_start, time_now, exit_status>>
    ELSE IF step \in {"gettimeofday", "sigaction"}
    THEN /\ SetScreen(fprintf_stderr(s, IF step = "sigaction" THEN "sigaction failed"
                                        ELSE "gettimeofday failed", ticks))
         /\ exit_status' = "EXIT_FAILURE"
         /\ pc' = "done"
         /\ UNCHANGED <<time_start, time_now>>
    ELSE IF step = "gettime_to_double"
    THEN /\ SetScreen(gettime_to_double_failed(s, term_rows, ticks))
         /\ exit_status' = "EXIT_FAILURE"
         /\ pc' = "done"
         /\ UNCHANGED <<time_start, time_now>>
    ELSE /\ SetScreen(df_winsize(df_setup(s), term_rows))
         /\ time_start' = clock
         /\ time_now' = clock
         /\ pc' = "loop"
         /\ exit_status' = exit_status

\* main from the choice of the display to df.df_winsize(true).
RunStartup ==
    /\ pc = "main"
    /\ \E scan \in ScanOutcomesNow,
          step \in {"ok", "gettimeofday", "sigaction", "gettime_to_double"} :
          StartedRun(ScanScreen([Screen EXCEPT
                                    !.df = IF "TOP" \in opt_flags THEN "top" ELSE "normal"],
                                scan, term_rows, ticks),
                     scan, step)
    /\ UNCHANGED <<fixedVars, count, stop_faultstat, ticks, clock, term_rows, t, redo,
                   tv, deadline, stop_at>>

\* The loop test succeeds: df_clear, the computation of the wait, and the
\* call of select.
RunLoopEnter ==
    /\ pc = "loop"
    /\ LoopContinues(stop_faultstat, forever, count)
    /\ time_now + NextWait(time_start, time_now, t, duration_secs, redo).secs <= MaxClock
    /\ count' = IF forever THEN count ELSE count - 1
    /\ t' = NextWait(time_start, time_now, t, duration_secs, redo).t
    /\ tv' = double_to_timeval(NextWait(time_start, time_now, t, duration_secs, redo).secs)
    /\ deadline' = time_now + NextWait(time_start, time_now, t, duration_secs, redo).secs
    /\ redo' = FALSE
    /\ pc' = "select"
    /\ SetScreen(Screen)
    /\ UNCHANGED <<fixedVars, stop_faultstat, ticks, clock, term_rows, time_start,
                   time_now, exit_status, stop_at>>

\* The loop test fails.
RunLoopExit ==
    /\ pc = "loop"
    /\ ~LoopContinues(stop_faultstat, forever, count)
    /\ count' = IF stop_faultstat THEN count ELSE count - 1
    /\ pc' = "free_cache"
    /\ SetScreen(Screen)
    /\ UNCHANGED <<fixedVars, stop_faultstat, ticks, clock, term_rows, time_start,
                   time_now, t, redo, tv, deadline, exit_status, stop_at>>

\* select() returns 0: the timeout has expired.
SelectTimeout ==
    /\ pc = "select"
    /\ clock' = clock + timeval_to_double(tv)
    /\ tv' = double_to_timeval(0)
    /\ pc' = "poll"
    /\ SetScreen(Screen)
    /\ UNCHANGED <<fixedVars, count, stop_faultstat, ticks, term_rows, time_start,
                   time_now, t, redo, deadline, exit_status, stop_at>>

\* select() returns -1 with EINTR after e units: the handler of the signal
\* has run, tv holds the time not slept.
Interrupted(sig, e, ws) ==
    /\ clock' = clock + e
    /\ tv' = double_to_timeval(timeval_to_double(tv) - e)
    /\ term_rows' = IF sig = "SIGWINCH" THEN ws ELSE term_rows
    /\ Stopped(stop_faultstat \/ sig # "SIGWINCH"
               \/ StopOnEintr(resized \/ sig = "SIGWINCH"))
    /\ IF StopOnEintr(resized \/ sig = "SIGWINCH")
       THEN /\ SetScreen([Screen EXCEPT !.resized = resized \/ sig = "SIGWINCH"])
            /\ redo' = redo
            /\ pc' = "poll"
       ELSE /\ SetScreen(df_winsize([Screen EXCEPT !.resized = TRUE],
                                    IF sig = "SIGWINCH" THEN ws ELSE term_rows))
            /\ redo' = TRUE
            /\ pc' = IF timeval_to_double(tv) - e > 0 THEN "select" ELSE "poll"

SelectInterrupted ==
    /\ pc = "select"
    /\ timeval_to_double(tv) > 0
    /\ \E sig \in Signals, e \in InterruptTimes(timeval_to_double(tv)), ws \in WinRows :
          Interrupted(sig, e, ws)
    /\ UNCHANGED <<fixedVars, count, ticks, time_start, time_now, t, deadline,
                   exit_status>>

\* select() fails with another error: display_restore, the message, break.
SelectFailed ==
    /\ pc = "select"
    /\ SetScreen(fprintf_stderr(display_restore(Screen, term_rows), "Select failed", ticks))
    /\ pc' = "free_cache"
    /\ UNCHANGED <<fixedVars, count, stop_faultstat, ticks, clock, term_rows, time_start,
                   time_now, t, redo, tv, deadline, exit_status, stop_at>>

\* A signal outside select(): handle_sig or handle_sigwinch sets its flag.
Signal ==
    /\ pc \in {"loop", "select", "poll", "scan"}
    /\ \E sig \in Signals, ws \in WinRows :
          /\ Stopped(stop_faultstat \/ sig # "SIGWINCH")
          /\ term_rows' = IF sig = "SIGWINCH" THEN ws ELSE term_rows
          /\ SetScreen([Screen EXCEPT !.resized = resized \/ sig = "SIGWINCH"])
    /\ UNCHANGED <<fixedVars, count, ticks, pc, clock, time_start, time_now, t, redo,
                   tv, deadline, exit_status>>

\* Keyboard polling: q, Q or escape set the stop flag.
RunPoll ==
    /\ pc = "poll"
    /\ \E key \in {"none", "q"} : Stopped(stop_faultstat \/ key = "q")
    /\ pc' = "scan"
    /\ SetScreen(Screen)
    /\ UNCHANGED <<fixedVars, count, ticks, clock, term_rows, time_start, time_now, t,
                   redo, tv, deadline, exit_status>>

\* The rest of the tick after the scan left the screen as s: the dump,
\* df_refresh, the release of the old list and gettime_to_double(); the
\* scan and the dump take w units.
Sampled(s, scan, w, clk) ==
    IF scan = "opendir"
    THEN /\ SetScreen(s)
         /\ pc' = "free_cache"
         /\ UNCHANGED <<ticks, clock, time_now, exit_status>>
    ELSE /\ ticks' = ticks + 1
         /\ clock' = clock + w
         /\ IF clk = "fail"
            THEN /\ SetScreen(gettime_to_double_failed(s, term_rows, ticks + 1))
                 /\ exit_status' = "EXIT_FAILURE"
                 /\ pc' = "done"
                 /\ time_now' = time_now
            ELSE /\ SetScreen(s)
                 /\ time_now' = clock + w
                 /\ pc' = "loop"
                 /\ exit_status' = exit_status

RunSample ==
    /\ pc = "scan"
    /\ \E scan \in ScanOutcomesNow, w \in WorkTimes, clk \in {"ok", "fail"} :
          /\ clock + w <= MaxClock
          /\ Sampled(ScanScreen(Screen, scan, term_rows, ticks), scan, w, clk)
    /\ UNCHANGED <<fixedVars, count, stop_faultstat, term_rows, time_start, t, redo,
                   tv, deadline, stop_at>>

\* free_cache: display_restore, the cache cleanups, exit(EXIT_SUCCESS).
RunCleanup ==
    /\ pc = "free_cache"
    /\ SetScreen(display_restore(Screen, term_rows))
    /\ exit_status' = "EXIT_SUCCESS"
    /\ pc' = "done"
    /\ UNCHANGED <<fixedVars, count, stop_faultstat, ticks, clock, term_rows, time_start,
                   time_now, t, redo, tv, deadline, stop_at>>

NextRun ==
    \/ RunStartup
    \/ RunLoopEnter
    \/ RunLoopExit
    \/ SelectTimeout
    \/ SelectInterrupted
    \/ SelectFailed
    \/ Signal
    \/ RunPoll
    \/ RunSample
    \/ RunCleanup

SpecRun == InitRun /\ [][NextRun]_vars

Exited == pc = "done"
Reported(msg) == \E m \in stderr : m.msg = msg

\* C12: whenever a run ends after the interactive display was set up, the
\* teardown of the interactive display has been executed and the plain
\* display is the active one; the teardown runs at most once in a run.
C12_TeardownOnEveryExit ==
    /\ endwins <= 1
    /\ (Exited /\ curses # "off") => (curses = "ended" /\ df = "normal" /\ endwins = 1)

\* C12 witness: a run in top mode that ended on a failed wait, torn down once.
C12_Witness ==
    /\ Exited
    /\ curses = "ended"
    /\ endwins = 1
    /\ Reported("Select failed")
    /\ exit_status = "EXIT_SUCCESS"

\* C13 (as amended): no failure message is written to standard error while
\* the interactive display is active: the failures of the process listing,
\* of an allocation, of the wait and of gettime_to_double restore the
\* display before they report.
C13_NoReportOnActiveDisplay ==
    \A m \in stderr : m.screen # "on"

\* C13 witness: an allocation failure reported in top mode, on the screen
\* that display_restore had just ended.
C13_Witness ==
    \E m \in stderr : m.msg = "Out of memory" /\ m.screen = "ended" /\ m.tick > 0

\* C13 (as stated): every failure message of a fatal condition is written
\* after display_restore was called.
C13_RestoreBeforeEveryReport ==
    \A m \in stderr : m.restored

\* C14: once an allocation failure is reported the engine samples and dumps
\* no more.
C14_NoDumpAfterAllocationFailure ==
    \A m \in stderr : m.msg = "Out of memory" => ticks = m.tick

\* The process is scheduled and select() returns when its timeout expires.
FairSpecRun ==
    /\ SpecRun
    /\ WF_vars(RunLoopEnter)
    /\ WF_vars(RunLoopExit)
    /\ WF_vars(SelectTimeout)
    /\ WF_vars(RunPoll)
    /\ WF_vars(RunSample)
    /\ WF_vars(RunCleanup)

C16_WaitsTargetMultiplesOfInterval ==
    [][/\ (deadline' - time_start') % duration_secs' = 0
       /\ deadline' >= deadline
       /\ t' >= t]_vars

\* C16 witness: a wait computed by catch-up after a resize had interrupted
\* an earlier wait.
C16_Witness ==
    /\ pc = "select"
    /\ resized
    /\ t >= 3
    /\ deadline = time_start + t * duration_secs
    /\ clock + timeval_to_double(tv) = deadline

\* The wait just computed had come out negative.
CaughtUp ==
    /\ pc = "loop"
    /\ pc' = "select"
    /\ time_start + t * duration_secs - time_now < 0

\* C17 (as amended): when the computed wait is negative, the tick counter
\* is moved to the first deadline not before the present and the wait then
\* used is never shorter than half a second.
C17_CatchUpWaitsHalfASecond ==
    [][CaughtUp =>
          /\ time_start + t' * duration_secs >= time_now
          /\ time_start + (t' - 1) * duration_secs < time_now
          /\ timeval_to_double(tv') >= HalfSecond]_vars

\* C17 witness: a wait that was padded by one interval.
C17_Witness ==
    /\ pc = "select"
    /\ deadline = time_start + (t + 1) * duration_secs
    /\ clock + timeval_to_double(tv) = deadline

\* C17 (as stated): after a negative computed wait the wait used is never
\* shorter than half of the sampling interval.
C17_CatchUpWaitsHalfAnInterval ==
    [][CaughtUp => 2 * timeval_to_double(tv') >= duration_secs]_vars

\* A resize signal cuts the wait: its handler sets the flag and select
\* returns with EINTR.
ResizeCut ==
    /\ pc = "select"
    /\ ~resized
    /\ resized'
    /\ <<clock, tv, pc, redo, stop_faultstat>>' # <<clock, tv, pc, redo, stop_faultstat>>

\* C18: a wait cut by a resize signal sets the resize flag, re-queries the
\* geometry, and waits again for what is left up to the same deadline; it
\* neither sets the stop flag nor reports anything; and no dump of a run
\* that was not asked to stop is produced before the deadline of its wait.
C18_ResizeResumesTheWait ==
    [][/\ ResizeCut =>
             /\ rows' = term_rows'
             /\ stop_faultstat' = stop_faultstat
             /\ stderr' = stderr
             /\ exit_status' = exit_status
             /\ deadline' = deadline
             /\ clock' + timeval_to_double(tv') = deadline
             /\ pc' = IF timeval_to_double(tv') > 0 THEN "select" ELSE "poll"
       /\ (pc = "scan" /\ ticks' = ticks + 1 /\ ~stop_faultstat) => clock >= deadline]_vars

\* C18 witness: a tick whose wait a resize had cut was dumped, with the new
\* geometry, and the run goes on.
C18_Witness ==
    /\ pc = "loop"
    /\ redo
    /\ resized
    /\ rows = 2 * DefaultRows
    /\ ~stop_faultstat
    /\ ticks >= 1
    /\ clock >= deadline
    /\ stderr = {}

(* ---------------------------------------------------------------------- *)
(* The process cache and the user-name cache                               *)
(* ---------------------------------------------------------------------- *)
proc_cache_hash_pid(pid) == pid % PROC_HASH_TABLE_SIZE
hash_uid(uid) == uid % UNAME_HASH_TABLE_SIZE

\* What the for loops of the two lookups find in a chain.
ProcIn(chain, pid) == \E i \in 1..Len(chain) : chain[i].pid = pid
ProcOf(chain, pid) == chain[CHOOSE i \in 1..Len(chain) : chain[i].pid = pid]
UnameIn(chain, uid) == \E i \in 1..Len(chain) : chain[i].uid = uid
UnameOf(chain, uid) == chain[CHOOSE i \in 1..Len(chain) : chain[i].uid = uid]

\* get_pid_comm() of every process of the model.
Comm == TokSs

\* The record proc_cache_add_at_hash_index() fills in: a process without a
\* readable command line is a kernel thread and gets its comm.
NewProc(pid, file, flags) ==
    [pid |-> pid,
     cmdline |-> IF file.cmdline = <<>> \/ "CMD_COMM" \in flags THEN Comm
                 ELSE file.cmdline,
     kernel_thread |-> file.cmdline = <<>>]

proc_cache_add_at_hash_index(cache, h, pid, file, flags, ok) ==
    IF ~ok
    THEN [cache |-> cache, found |-> FALSE, rec |-> NoProc, queried |-> TRUE,
          oom |-> TRUE]
    ELSE [cache |-> [cache EXCEPT ![h] = <<NewProc(pid, file, flags)>> \o @],
          found |-> TRUE, rec |-> NewProc(pid, file, flags), queried |-> TRUE,
          oom |-> FALSE]

\* A lookup that reads /proc again for a pid it has cached.
proc_cache_find_by_pid_uncached(cache, pid, file, flags, ok) ==
    IF ~file.exists
    THEN [cache |-> cache, found |-> FALSE, rec |-> NoProc, queried |-> TRUE,
          oom |-> FALSE]
    ELSE proc_cache_add_at_hash_index(cache, proc_cache_hash_pid(pid), pid, file,
                                      flags, ok)

proc_cache_find_by_pid(cache, pid, file, flags, ok) ==
    IF ProcIn(cache[proc_cache_hash_pid(pid)], pid)
    THEN [cache |-> cache, found |-> TRUE,
          rec |-> ProcOf(cache[proc_cache_hash_pid(pid)], pid),
          queried |-> FALSE, oom |-> FALSE]
    ELSE IF ~file.exists
    THEN [cache |-> cache, found |-> FALSE, rec |-> NoProc, queried |-> TRUE,
          oom |-> FALSE]
    ELSE proc_cache_add_at_hash_index(cache, proc_cache_hash_pid(pid), pid, file,
                                      flags, ok)

\* snprintf(buf, sizeof(buf), "%i", uid)
RECURSIVE Decimal(_)
Decimal(n) ==
    IF n < 10 THEN <<(<<"0", "1", "2", "3", "4", "5", "6", "7", "8", "9">>)[n + 1]>>
    ELSE Decimal(n \div 10) \o Decimal(n % 10)

uname_cache_find(cache, uid, pw, ok) ==
    IF UnameIn(cache[hash_uid(uid)], uid)
    THEN [cache |-> cache, found |-> TRUE, rec |-> UnameOf(cache[hash_uid(uid)], uid),
          queried |-> FALSE, oom |-> FALSE]
    ELSE IF ~ok
    THEN [cache |-> cache, found |-> FALSE, rec |-> NoUname, queried |-> FALSE,
          oom |-> TRUE]
    ELSE [cache |-> [cache EXCEPT ![hash_uid(uid)] =
                        <<[uid |-> uid,
                           name |-> IF pw = <<>> THEN Decimal(uid) ELSE pw]>> \o @],
          found |-> TRUE,
          rec |-> [uid |-> uid, name |-> IF pw = <<>> THEN Decimal(uid) ELSE pw],
          queried |-> TRUE, oom |-> FALSE]

\* What basename() of libgen.h leaves in the buffer it is given: a name that
\* ends in slashes is cut before them.
basename_buffer(s) ==
    IF s # <<>> /\ s[Len(s)] = "/" /\ StripSlashes(s) # <<>>
    THEN StripSlashes(s)
    ELSE s

\* The cached command line after the allow-list loop of fault_get_by_proc():
\* every name entry without a slash that the loop reaches hands
\* proc->cmdline itself to basename().
RECURSIVE FilteredCmdline(_, _, _, _)
FilteredCmdline(pl, i, pid, cmdline) ==
    IF i > Len(pl) THEN cmdline
    ELSE IF pl[i].pid = pid THEN cmdline
    ELSE IF pl[i].name = NoName THEN FilteredCmdline(pl, i + 1, pid, cmdline)
    ELSE IF strchr(pl[i].name, 47)
    THEN (IF procnamecmp(pl[i].name, cmdline) = 0 THEN cmdline
          ELSE FilteredCmdline(pl, i + 1, pid, cmdline))
    ELSE (IF procnamecmp(pl[i].name, basename(cmdline)) = 0
          THEN basename_buffer(cmdline)
          ELSE FilteredCmdline(pl, i + 1, pid, basename_buffer(cmdline)))

\* The process cache after fault_get_by_proc() looked pid up with result r
\* and, for a user process, ran the allow-list loop on it.
Filtered(r, pl, pid) ==
    IF r.found /\ ~r.rec.kernel_thread
    THEN [r.cache EXCEPT ![proc_cache_hash_pid(pid)] =
             [i \in 1..Len(@) |->
                 IF @[i].pid = pid
                 THEN [@[i] EXCEPT !.cmdline = FilteredCmdline(pl, 1, pid, @)]
                 ELSE @[i]]]
    ELSE r.cache

CmdTrailing == <<"s", "s", " ", "/", "u", "/">>
ProcFiles == {[exists |-> FALSE, cmdline |-> <<>>], [exists |-> TRUE, cmdline |-> <<>>],
              [exists |-> TRUE, cmdline |-> CmdTrailing]}
UserNames == {<<>>, <<"u">>}

\* The display and the clock besides what SetScreen sets.
runRest == <<clock, term_rows, duration_secs, time_start, time_now, t, redo, tv,
             deadline, exit_status, stop_at>>

InitCache ==
    /\ MainIdle
    /\ RunIdle
    /\ PoolIdle
    /\ RestIdle
    /\ pids \in {<<>>, <<NameEntry(TokSs)>>}
    /\ argv = <<>>
    /\ probe = NoProbe
    /\ pc = "cache"
    /\ proc_cache_hash = [h \in ProcBuckets |-> <<>>]
    /\ uname_cache = [h \in UnameBuckets |-> <<>>]
    /\ proc_fs \in [CachePids -> ProcFiles]
    /\ passwd \in [CacheUids -> UserNames]
    /\ last_proc = NoLookup(NoProc)
    /\ last_uname = NoLookup(NoUname)

\* last_proc and last_uname hold the result of a lookup until the next step.
NoLast ==
    /\ last_proc' = NoLookup(NoProc)
    /\ last_uname' = NoLookup(NoUname)

\* An allocation failure is reported through out_of_memory().
Looked(r) ==
    IF r.oom THEN SetScreen(out_of_memory(Screen, term_rows, ticks))
    ELSE SetScreen(Screen)

ProcLooked(r, pid) ==
    /\ proc_cache_hash' = Filtered(r, pids, pid)
    /\ last_proc' = [key |-> pid, found |-> r.found, rec |-> r.rec,
                     queried |-> r.queried]
    /\ Looked(r)

\* fault_get_by_proc() up to the end of the allow-list loop.
FindProc ==
    /\ pc = "cache"
    /\ \E pid \in CachePids, ok \in BOOLEAN :
          ProcLooked(proc_cache_find_by_pid(proc_cache_hash, pid, proc_fs[pid],
                                            opt_flags, ok), pid)
    /\ last_uname' = NoLookup(NoUname)
    /\ UNCHANGED <<dataVars, filterVars, poolVars, restVars, runRest, opt_flags, forever, count,
                   stop_faultstat, ticks, pc, uname_cache, proc_fs, passwd>>

UnameLooked(r, uid) ==
    /\ uname_cache' = r.cache
    /\ last_uname' = [key |-> uid, found |-> r.found, rec |-> r.rec,
                      queried |-> r.queried]
    /\ Looked(r)

\* uname_cache_find() for the Uid line of a status file.
FindUname ==
    /\ pc = "cache"
    /\ \E uid \in CacheUids, ok \in BOOLEAN :
          UnameLooked(uname_cache_find(uname_cache, uid, passwd[uid], ok), uid)
    /\ last_proc' = NoLookup(NoProc)
    /\ UNCHANGED <<dataVars, filterVars, poolVars, restVars, runRest, opt_flags, forever, count,
                   stop_faultstat, ticks, pc, proc_cache_hash, proc_fs, passwd>>

\* A process starts, ends or is replaced by another with the same pid.
ProcChange ==
    /\ pc = "cache"
    /\ \E pid \in CachePids, file \in ProcFiles :
          proc_fs' = [proc_fs EXCEPT ![pid] = file]
    /\ NoLast
    /\ UNCHANGED <<mainVars, filterVars, runVars, poolVars, restVars, pc, proc_cache_hash, uname_cache,
                   passwd>>

\* A user is added, renamed or removed.
PasswdChange ==
    /\ pc = "cache"
    /\ \E uid \in CacheUids, name \in UserNames :
          passwd' = [passwd EXCEPT ![uid] = name]
    /\ NoLast
    /\ UNCHANGED <<mainVars, filterVars, runVars, poolVars, restVars, pc, proc_cache_hash, uname_cache,
                   proc_fs>>

\* uname_cache_cleanup() and proc_cache_cleanup() before exit.
CacheCleanup ==
    /\ pc = "cache"
    /\ proc_cache_hash' = [h \in ProcBuckets |-> <<>>]
    /\ uname_cache' = [h \in UnameBuckets |-> <<>>]
    /\ pc' = "done"
    /\ NoLast
    /\ UNCHANGED <<mainVars, filterVars, runVars, poolVars, restVars, proc_fs, passwd>>

NextCache ==
    \/ FindProc
    \/ FindUname
    \/ ProcChange
    \/ PasswdChange
    \/ CacheCleanup

SpecCache == InitCache /\ [][NextCache]_vars

\* The chain old is what is left of the chain new behind its added heads.
Suffix(old, new) ==
    /\ Len(old) <= Len(new)
    /\ SubSeq(new, Len(new) - Len(old) + 1, Len(new)) = old

\* C19, from one call of the sampler to the next: before shutdown, a lookup
\* of a cached pid or uid returns the cached record without a system query,
\* and between two calls no entry of either cache is removed or modified,
\* whatever became of the process or of the user.
C19_CachesAppendOnly ==
    [][pc' = "cache" =>
          /\ \A h \in ProcBuckets : Suffix(proc_cache_hash[h], proc_cache_hash'[h])
          /\ \A h \in UnameBuckets : Suffix(uname_cache[h], uname_cache'[h])
          /\ (/\ last_proc'.key # 0
              /\ ProcIn(proc_cache_hash[proc_cache_hash_pid(last_proc'.key)],
                        last_proc'.key))
             => /\ last_proc'.found
                /\ ~last_proc'.queried
                /\ last_proc'.rec =
                      ProcOf(proc_cache_hash[proc_cache_hash_pid(last_proc'.key)],
                             last_proc'.key)
          /\ (/\ last_uname'.queried \/ last_uname'.found
              /\ UnameIn(uname_cache[hash_uid(last_uname'.key)], last_uname'.key))
             => /\ last_uname'.found
                /\ ~last_uname'.queried
                /\ last_uname'.rec =
                      UnameOf(uname_cache[hash_uid(last_uname'.key)], last_uname'.key)]_vars

\* C19 as stated: on top of the above, the record a lookup hands to the
\* sampler is, field for field, the record the cache holds once the sampler
\* is done with the process: no entry is modified after it was resolved.
C19_EntriesNeverModified ==
    [][pc' = "cache" =>
          /\ \A h \in ProcBuckets : Suffix(proc_cache_hash[h], proc_cache_hash'[h])
          /\ \A h \in UnameBuckets : Suffix(uname_cache[h], uname_cache'[h])
          /\ (last_proc'.key # 0 /\ last_proc'.found)
             => last_proc'.rec =
                   ProcOf(proc_cache_hash'[proc_cache_hash_pid(last_proc'.key)],
                          last_proc'.key)
          /\ (last_uname'.found)
             => last_uname'.rec =
                   UnameOf(uname_cache'[hash_uid(last_uname'.key)], last_uname'.key)]_vars

\* C19 witness: a pid whose process has ended, or has been replaced, is
\* answered from the cache with the record of the process first seen.
C19_Witness ==
    /\ pc = "cache"
    /\ last_proc.found
    /\ ~last_proc.queried
    /\ last_proc.rec.kernel_thread
    /\ proc_fs[last_proc.key].cmdline # <<>>
    /\ Len(proc_cache_hash[proc_cache_hash_pid(last_proc.key)]) = 2

(* ---------------------------------------------------------------------- *)
(* The record pool over the ticks of a run                                 *)
(* ---------------------------------------------------------------------- *)
\* What /proc holds for one pid when the counters do not matter.
PoolProcStates ==
    {[k |-> kind, maj |-> 0, min |-> 0] : kind \in {"absent", "skip", "fail", "ok"}}

\* The entries of a scan that got a record and gave it back.
Unread(procs) == Cardinality({pid \in Pids : procs[pid].k = "fail"})

InitPool ==
    /\ DataIdle
    /\ opt_flags = {}
    /\ \E cl \in {[forever |-> TRUE, count |-> -1], [forever |-> FALSE, count |-> 2]} :
          /\ forever = cl.forever
          /\ count = cl.count
    /\ stop_faultstat = FALSE
    /\ df = "normal"
    /\ rows = DefaultRows
    /\ ticks = 0
    /\ pc = "main"
    /\ AuxIdle

\* What a scan s of procs took from the pool.
Took(s, procs) ==
    /\ unread' = Unread(procs)
    /\ fresh' = s.m.nalloc - nalloc

PoolStartupScanned(s, procs) ==
    /\ StartupScanned(s)
    /\ precached' = Len(Observed(s.m.rec, s.head))
    /\ Took(s, procs)

\* The scan before the loop and the preallocation.
PoolStartup ==
    /\ pc = "main"
    /\ count # 0
    /\ \E procs \in [Pids -> PoolProcStates] :
          PoolStartupScanned(
              fault_get_all_pids(ThePool, fault_info_old, procs, vm_swap_of), procs)
    /\ pc' = "loop"
    /\ UNCHANGED <<fault_info_new, sort_by, opt_flags, stop_faultstat, forever, count,
                   df, rows, cury, ticks, vm_swap_of, scan_new, rec_scan, out>>
    /\ UNCHANGED <<filterVars, runVars, cacheVars, restVars>>

PoolSampleScanned(s, procs) ==
    /\ SampleScanned(s)
    /\ Took(s, procs)

\* The scan of a tick and its dump.
PoolSample ==
    /\ pc = "scan"
    /\ \E procs \in [Pids -> PoolProcStates] :
          PoolSampleScanned(
              fault_get_all_pids(ThePool, fault_info_new, procs, vm_swap_of), procs)
    /\ UNCHANGED <<fault_info_old, sort_by, opt_flags, stop_faultstat, forever, count,
                   df, rows, vm_swap_of, scan_old, precached>>
    /\ UNCHANGED <<filterVars, runVars, cacheVars, restVars>>

NextPool ==
    \/ PoolStartup
    \/ LoopEnter
    \/ LoopExit
    \/ Poll
    \/ PoolSample
    \/ Release
    \/ Cleanup

SpecPool == InitPool /\ [][NextPool]_vars

\* A tick is stable when the list it releases and the list it sampled both
\* have the length of the list the scan before the loop sampled.
StableTick ==
    /\ pc \in {"release", "hung"}
    /\ Len(scan_old) = precached
    /\ Len(scan_new) = precached

Undisturbed == ~forever /\ ~stop_faultstat /\ stderr = {}

\* The next wait would end after the last time of day the clock is followed to.
ClockSpent ==
    /\ pc = "loop"
    /\ time_now + NextWait(time_start, time_now, t, duration_secs, redo).secs > MaxClock

MaxPending == 2

\* The characters typed: the keys main knows, and one it does not.
KeyChars == {"q", "Q", "ESC", "a", "t", "s", "x"}

\* A poll that knows the lower-case quit key only.
KeyStopsLowerOnly(ch) == ch = "q"

\* case 'q': case 'Q': case 27:
KeyStops(ch) == ch \in {"q", "Q", "ESC"}

\* case 'a': opt_flags ^= OPT_ARROW;  case 't': opt_flags ^= OPT_TOP_TOTAL;
KeyFlags(flags, ch) ==
    IF ch = "a" THEN Toggle(flags, "ARROW")
    ELSE IF ch = "t" THEN Toggle(flags, "TOP_TOTAL")
    ELSE flags

\* case 's': sort_by++; if (sort_by >= SORT_END) sort_by = SORT_MAJOR_MINOR;
KeySort(sb, ch) ==
    IF ch = "s" THEN (IF sb + 1 >= SORT_END THEN SORT_MAJOR_MINOR ELSE sb + 1)
    ELSE sb

\* read(0, &ch, 1) with nchar > 0 takes one character off standard input.
ReadOne(q) == IF q = <<>> THEN q ELSE Tail(q)

\* What the key poll leaves alone.
keysFixed == <<rec, fault_info_cache, fault_info_old, fault_info_new, nalloc, forever,
               count, df, rows, cury, ticks, vm_swap_of, scan_old, scan_new, rec_scan,
               out, filterVars, runVars, cacheVars, poolVars, allocVars, pureVars, screenVars, apiVars,
                   jsonVars>>

InitKeys ==
    /\ DataIdle
    /\ opt_flags \in {{"TOP"}, {"TOP", "TOP_TOTAL"}}
    /\ forever = TRUE
    /\ count = -1
    /\ stop_faultstat = FALSE
    /\ df = "normal"
    /\ rows = DefaultRows
    /\ ticks = 0
    /\ pc = "main"
    /\ AuxIdle

\* The start-up of a run in top mode, up to the loop.
KeysStartup ==
    /\ pc = "main"
    /\ count # 0
    /\ pc' = "loop"
    /\ UNCHANGED <<keysFixed, keyVars, opt_flags, sort_by, stop_faultstat>>

\* The loop test succeeds; the wait.
KeysLoopEnter ==
    /\ pc = "loop"
    /\ LoopContinues(stop_faultstat, forever, count)
    /\ pc' = "poll"
    /\ UNCHANGED <<keysFixed, keyVars, opt_flags, sort_by, stop_faultstat>>

KeysLoopExit ==
    /\ pc = "loop"
    /\ ~LoopContinues(stop_faultstat, forever, count)
    /\ pc' = "free_cache"
    /\ UNCHANGED <<keysFixed, keyVars, opt_flags, sort_by, stop_faultstat>>

\* The poll read ch, or nothing ("none").
KeyPolled(ch) ==
    /\ stop_faultstat' = (stop_faultstat \/ KeyStops(ch))
    /\ opt_flags' = KeyFlags(opt_flags, ch)
    /\ sort_by' = KeySort(sort_by, ch)
    /\ last_key' = ch

\* ioctl(0, FIONREAD, &nchar), read(0, &ch, 1) and the switch on ch.
KeyPoll ==
    /\ pc = "poll"
    /\ KeyPolled(IF pending = <<>> THEN "none" ELSE Head(pending))
    /\ pending' = ReadOne(pending)
    /\ pc' = "scan"
    /\ UNCHANGED keysFixed

\* The scan, the dump and the release of a tick: none reads the keyboard or
\* writes the sort key, the option flags or the stop flag.
KeysSample ==
    /\ pc = "scan"
    /\ pc' = "loop"
    /\ last_key' = "none"
    /\ UNCHANGED <<keysFixed, pending, opt_flags, sort_by, stop_faultstat>>

KeysCleanup ==
    /\ pc = "free_cache"
    /\ pc' = "done"
    /\ UNCHANGED <<keysFixed, keyVars, opt_flags, sort_by, stop_faultstat>>

\* The user types a key.
Type ==
    /\ pc # "done"
    /\ Len(pending) < MaxPending
    /\ \E ch \in KeyChars : pending' = Append(pending, ch)
    /\ UNCHANGED <<keysFixed, last_key, pc, opt_flags, sort_by, stop_faultstat>>

NextKeys ==
    \/ KeysStartup
    \/ KeysLoopEnter
    \/ KeysLoopExit
    \/ KeyPoll
    \/ KeysSample
    \/ KeysCleanup
    \/ Type

SpecKeys == InitKeys /\ [][NextKeys]_vars

\* The step is the key poll of a tick.
PollStep == pc = "poll" /\ pc' = "scan"

\* The character a poll reads from the keystrokes q.
Read(q) == IF q = <<>> THEN "none" ELSE Head(q)

\* C25: the keyboard is polled once per tick, between the wait and the scan,
\* and the poll takes at most one pending keystroke; q, Q and ESC set the
\* stop flag, a toggles the arrow option, t toggles the totals view, s moves
\* the sort key to the next of the seven modes and from swap back to combined
\* major+minor, any other key changes nothing; nothing but the poll takes a
\* keystroke or changes the sort key or the options, nothing clears the stop
\* flag, and the sort key is always one of the seven modes.
C25_KeyPoll ==
    /\ [](sort_by \in SORT_MAJOR_MINOR..SORT_SWAP)
    /\ [][/\ pc' = "scan" => pc \in {"poll", "scan"}
          /\ pc = "poll" => pc' \in {"poll", "scan"}
          /\ PollStep =>
                /\ pending # <<>> => pending' = Tail(pending)
                /\ pending = <<>> => pending' = <<>>
                /\ stop_faultstat' = (stop_faultstat \/ Read(pending) \in {"q", "Q", "ESC"})
                /\ ("ARROW" \in opt_flags') = (("ARROW" \in opt_flags) # (Read(pending) = "a"))
                /\ ("TOP_TOTAL" \in opt_flags')
                      = (("TOP_TOTAL" \in opt_flags) # (Read(pending) = "t"))
                /\ opt_flags' \ {"ARROW", "TOP_TOTAL"} = opt_flags \ {"ARROW", "TOP_TOTAL"}
                /\ sort_by' = IF Read(pending) # "s" THEN sort_by
                              ELSE IF sort_by = SORT_SWAP THEN SORT_MAJOR_MINOR
                              ELSE sort_by + 1
          /\ ~PollStep =>
                /\ Len(pending') >= Len(pending)
                /\ <<opt_flags, sort_by>>' = <<opt_flags, sort_by>>
                /\ stop_faultstat => stop_faultstat']_vars

\* C25 witness: the poll of a tick read an s at the swap key and wrapped to
\* combined major+minor, and left the keystroke typed after it pending.
C25_Witness ==
    /\ pc = "scan"
    /\ last_key = "s"
    /\ sort_by = SORT_MAJOR_MINOR
    /\ pending = <<"Q">>
    /\ "ARROW" \in opt_flags
    /\ ~stop_faultstat

(* ---------------------------------------------------------------------- *)
(* The alive flag, the sort links and the record pool                      *)
(* ---------------------------------------------------------------------- *)
\* A dump has run on the lists fault_info_old and fault_info_new.
AfterDump == pc \in {"release", "restore", "hung"}

\* The new list holds a record with the pid of record p.
InNewList(p) == \E k \in DOMAIN NewIds : rec[NewIds[k]].pid = rec[p].pid

\* C26: when the matching pass of a dump starts, no record of the previous
\* list has its alive flag set; when the dump is over, a record of the
\* previous list has the flag set exactly when the new list holds a record
\* with its pid, so the unflagged records are the pids gone from the new list.
C26_AliveMarksMatched ==
    AfterDump =>
       \A k \in DOMAIN OldIds :
          /\ ~rec_scan[OldIds[k]].alive
          /\ rec[OldIds[k]].alive <=> InNewList(OldIds[k])

\* C26 witness: of two processes of the previous list one was sampled again
\* and is flagged, the other is gone and is not.
C26_Witness ==
    /\ pc = "release"
    /\ Len(OldIds) = 2
    /\ Len(NewIds) = 1
    /\ \E k \in DOMAIN OldIds : rec[OldIds[k]].alive /\ InNewList(OldIds[k])
    /\ \E k \in DOMAIN OldIds : ~rec[OldIds[k]].alive /\ ~InNewList(OldIds[k])

\* Record p has no sort link left.
Unlinked(p) == rec[p].s_next = NULL /\ rec[p].d_next = NULL

\* C27: when a dump (full, diff or JSON) is over, every record of the two
\* lists it worked on has its sort links cleared.
C27_SortLinksCleared ==
    (pc \in {"release", "restore"}) =>
       /\ \A k \in DOMAIN NewIds : Unlinked(NewIds[k])
       /\ \A k \in DOMAIN OldIds : Unlinked(OldIds[k])

\* fault_get_by_proc() for one entry of /proc has left the scan as s; a is
\* what its fault_cache_alloc() returned.
AllocFilled(a, s) ==
    /\ rec' = s.m.rec
    /\ fault_info_cache' = s.m.cache
    /\ nalloc' = s.m.nalloc
    /\ fault_info_new' = s.head
    /\ last_alloc' = [p |-> a.p, was |-> rec[a.p], rec |-> a.m.rec[a.p]]

AllocFor(a, pid, st) ==
    AllocFilled(a, fault_get_by_proc_with(
                       [m |-> ThePool, head |-> fault_info_new, npids |-> 0],
                       a, pid, st, vm_swap_of))

\* The scan of a tick handles the next entry of /proc.
AllocOne ==
    /\ pc = "scan"
    /\ scan_pid <= NumPids
    /\ \E st \in PoolProcStates :
          IF st.k \in {"absent", "skip"}
          THEN /\ last_alloc' = [p |-> 0, was |-> <<>>, rec |-> <<>>]
               /\ UNCHANGED <<rec, fault_info_cache, nalloc, fault_info_new>>
          ELSE AllocFor(fault_cache_alloc(ThePool), scan_pid, st)
    /\ scan_pid' = scan_pid + 1
    /\ UNCHANGED <<fault_info_old, sort_by, opt_flags, stop_faultstat, forever, count,
                   df, rows, cury, pc, ticks, vm_swap_of, scan_old, scan_new, rec_scan,
                   out>>
    /\ UNCHANGED <<filterVars, runVars, cacheVars, poolVars, keyVars, pureVars, screenVars, apiVars,
                   jsonVars>>

\* The scan is over: the dump and df_refresh.
AllocDump ==
    /\ pc = "scan"
    /\ scan_pid > NumPids
    /\ SampleScanned([m |-> ThePool, head |-> fault_info_new, npids |-> 0])
    /\ scan_pid' = 1
    /\ last_alloc' = [p |-> 0, was |-> <<>>, rec |-> <<>>]
    /\ UNCHANGED <<fault_info_old, sort_by, opt_flags, stop_faultstat, forever, count,
                   df, rows, vm_swap_of, scan_old>>
    /\ UNCHANGED <<filterVars, runVars, cacheVars, poolVars, keyVars, pureVars, screenVars, apiVars,
                   jsonVars>>

NextAlloc ==
    \/ PoolStartup
    \/ LoopEnter
    \/ LoopExit
    \/ Poll
    \/ AllocOne
    \/ AllocDump
    \/ Release
    \/ Cleanup

SpecAlloc == InitPool /\ [][NextAlloc]_vars

\* C28: fault_cache_alloc returns a record all of whose fields are zero; it
\* returns the head of the free list whenever the free list is not empty and
\* allocates, once, only when the free list is empty.
C28_AcquireZeroedFreeListFirst ==
    [][(last_alloc'.p # 0 /\ scan_pid' = scan_pid + 1) =>
          /\ last_alloc'.rec = ZeroRec
          /\ fault_info_cache # NULL =>
                (last_alloc'.p = fault_info_cache /\ nalloc' = nalloc)
          /\ fault_info_cache = NULL =>
                (nalloc' = nalloc + 1 /\ last_alloc'.p = nalloc')]_vars

\* C28 witness: a record released with its pid, a sort link and the alive flag
\* still set was handed out again, zeroed.
C28_Witness ==
    /\ last_alloc.p # 0
    /\ last_alloc.was.alive
    /\ last_alloc.was.pid # 0
    /\ last_alloc.was.s_next # NULL
    /\ last_alloc.rec = ZeroRec

\* The free list, and the number of records on the three lists of the engine.
FreeIds == ListOf(rec, fault_info_cache, MaxRec)
Owned == Len(FreeIds) + Len(OldIds) + Len(NewIds)
OwnedIds ==
    {FreeIds[k] : k \in DOMAIN FreeIds} \cup {OldIds[k] : k \in DOMAIN OldIds}
        \cup {NewIds[k] : k \in DOMAIN NewIds}

Running == pc \in {"loop", "poll", "scan", "release"}

\* C29: from the preallocation to the shutdown every record obtained from
\* the allocator is on exactly one of the free list, the previous list and
\* the new list; no step of the run lowers that number or the number of
\* records allocated; the release of the previous list moves its records to
\* the free list; and only the shutdown cleanup empties the free list.
C29_PoolNeverShrinks ==
    /\ [](Running => (Owned = nalloc /\ OwnedIds = 1..nalloc))
    /\ [][(Running /\ Running') =>
             /\ nalloc' >= nalloc
             /\ Len(ListOf(rec', fault_info_cache', MaxRec))
                   + Len(ListOf(rec', fault_info_old', MaxRec))
                   + Len(ListOf(rec', fault_info_new', MaxRec)) >= Owned
             /\ (pc = "release") =>
                   /\ Len(ListOf(rec', fault_info_cache', MaxRec))
                         = Len(FreeIds) + Len(OldIds)
                   /\ ListOf(rec', fault_info_old', MaxRec) = NewIds]_vars
    /\ [][(fault_info_cache # NULL /\ fault_info_cache' = NULL) =>
             (pc' = "done" \/ pc = "scan")]_vars

\* C29 witness: after two ticks the processes are gone and all the records
\* allocated, four, are on the free list.
C29_Witness ==
    /\ pc = "loop"
    /\ ticks = 2
    /\ nalloc = 4
    /\ Len(FreeIds) = 4
    /\ fault_info_old = NULL

\* The process cache holds a kernel-thread record for pid.
KernelCached(cache, pid) ==
    /\ ProcIn(cache[proc_cache_hash_pid(pid)], pid)
    /\ ProcOf(cache[proc_cache_hash_pid(pid)], pid).kernel_thread

\* fault_get_by_proc() gets past the lookup, the kernel-thread test and the
\* allow-list loop, to where it acquires and fills in a sample.
Proceeds(lp, pl) ==
    /\ lp.found
    /\ ~lp.rec.kernel_thread
    /\ Listed(pl, lp.key, lp.rec.cmdline)

\* C30: a pid cached while its command line could not be read is cached as a
\* kernel thread; a kernel-thread record stays in the cache until shutdown;
\* and a call of the sampler for a pid with such a record never gets to
\* produce a sample, whatever the process behind the pid has become.
C30_KernelThreadsAlwaysSkipped ==
    [][pc' = "cache" =>
          /\ \A pid \in CachePids :
                KernelCached(proc_cache_hash, pid) => KernelCached(proc_cache_hash', pid)
          /\ (last_proc'.key # 0 /\ KernelCached(proc_cache_hash, last_proc'.key))
             => ~Proceeds(last_proc', pids)
          /\ (/\ last_proc'.key # 0
              /\ last_proc'.found
              /\ last_proc'.queried
              /\ proc_fs[last_proc'.key].cmdline = <<>>)
             => /\ last_proc'.rec.kernel_thread
                /\ KernelCached(proc_cache_hash', last_proc'.key)
                /\ ~Proceeds(last_proc', pids)]_vars

\* C30 witness: with no allow-list, a pid cached as a kernel thread now
\* belongs to a process with a command line, and the sampler, answered from
\* the cache, skipped it.
C30_Witness ==
    /\ pc = "cache"
    /\ pids = <<>>
    /\ last_proc.key # 0
    /\ KernelCached(proc_cache_hash, last_proc.key)
    /\ ~last_proc.queried
    /\ proc_fs[last_proc.key] = [exists |-> TRUE, cmdline |-> CmdTrailing]
    /\ ~Proceeds(last_proc, pids)

(* ---------------------------------------------------------------------- *)
(* The stat file of a process (fault_get_by_proc)                          *)
(* ---------------------------------------------------------------------- *)
MaxComm == 3
CommChars == {"a", " ", "(", ")"}
Comms == UNION {[1..n -> CommChars] : n \in 0..MaxComm}
StatRecords == [comm : Comms, minflt : {0, 7, 12}, cminflt : {3}, majflt : {5, 40}]

RECURSIVE SpaceSep(_)
SpaceSep(fields) ==
    IF Len(fields) = 1 THEN fields[1]
    ELSE fields[1] \o <<" ">> \o SpaceSep(Tail(fields))

\* The line of /proc/pid/stat: the pid, the comm in parentheses, the state,
\* ppid, pgrp, session, tty_nr, tpgid, flags, then minflt, cminflt, majflt,
\* cmajflt and the end of the line.
StatLine(k) ==
    SpaceSep(<<Decimal(7), <<"(">> \o k.comm \o <<")">>, <<"S">>, <<"1">>, <<"1">>,
               <<"1">>, <<"0">>, <<"-", "1">>, <<"4">>, Decimal(k.minflt),
               Decimal(k.cminflt), Decimal(k.majflt), <<"9">>>>) \o <<"\n">>

\* The character at a pointer, 0 for the terminating NUL.
Deref(buf, ptr) == IF ptr <= Len(buf) THEN buf[ptr] ELSE 0

AtChar(buf, ptr, ch) == ptr <= Len(buf) /\ buf[ptr] = ch

RECURSIVE SkipBlanks(_, _)
SkipBlanks(buf, ptr) ==
    IF AtChar(buf, ptr, " ") THEN SkipBlanks(buf, ptr + 1) ELSE ptr

RECURSIVE SkipField(_, _)
SkipField(buf, ptr) ==
    IF ptr <= Len(buf) /\ buf[ptr] # " " THEN SkipField(buf, ptr + 1) ELSE ptr

\* while (*ptr) { skip blanks; n--; if (n <= 0) break; skip the field; }
RECURSIVE FieldWalk(_, _, _)
FieldWalk(buf, ptr, n) ==
    IF ptr > Len(buf) THEN ptr
    ELSE IF n - 1 <= 0 THEN SkipBlanks(buf, ptr)
    ELSE FieldWalk(buf, SkipField(buf, SkipBlanks(buf, ptr)), n - 1)

FirstOf(buf, ch) ==
    IF \E i \in 1..Len(buf) : buf[i] = ch
    THEN CHOOSE i \in 1..Len(buf) : buf[i] = ch /\ \A j \in 1..(i - 1) : buf[j] # ch
    ELSE NULL

LastOf(buf, ch) ==
    IF \E i \in 1..Len(buf) : buf[i] = ch
    THEN CHOOSE i \in 1..Len(buf) :
            buf[i] = ch /\ \A j \in (i + 1)..Len(buf) : buf[j] # ch
    ELSE NULL

\* A field search that takes the first closing parenthesis for the end of
\* the command.
get_proc_self_stat_field_first(buf, num) ==
    IF num < 1 \/ buf = <<>> THEN NULL
    ELSE IF num = 1 THEN 1
    ELSE IF num = 2 THEN FirstOf(buf, "(")
    ELSE IF FirstOf(buf, ")") = NULL THEN NULL
    ELSE FieldWalk(buf, FirstOf(buf, ")") + 1, num - 2)

\* A pointer into buf is the index of its character; NULL is no pointer.
get_proc_self_stat_field(buf, num) ==
    IF num < 1 \/ buf = <<>> THEN NULL
    ELSE IF num = 1 THEN 1
    ELSE IF num = 2 THEN FirstOf(buf, "(")
    ELSE IF LastOf(buf, ")") = NULL THEN NULL
    ELSE FieldWalk(buf, LastOf(buf, ")") + 1, num - 2)

DigitOf(ch) ==
    CASE ch = "0" -> 0 [] ch = "1" -> 1 [] ch = "2" -> 2 [] ch = "3" -> 3
      [] ch = "4" -> 4 [] ch = "5" -> 5 [] ch = "6" -> 6 [] ch = "7" -> 7
      [] ch = "8" -> 8 [] ch = "9" -> 9 [] OTHER -> -1

RECURSIVE SkipWhite(_, _)
SkipWhite(buf, ptr) ==
    IF ptr <= Len(buf) /\ buf[ptr] \in {" ", "\n", "\t"}
    THEN SkipWhite(buf, ptr + 1)
    ELSE ptr

RECURSIVE ScanDigits(_, _, _)
ScanDigits(buf, ptr, acc) ==
    IF ptr <= Len(buf) /\ DigitOf(buf[ptr]) >= 0
    THEN ScanDigits(buf, ptr + 1, acc * 10 + DigitOf(buf[ptr]))
    ELSE [val |-> acc, next |-> ptr]

\* One %lu or %u conversion of sscanf: white space, an optional sign, digits.
\* A negated value stands for its 64-bit wrap.
ScanSigned(buf, ptr) ==
    IF ptr > Len(buf) \/ DigitOf(buf[ptr]) < 0
    THEN [r |-> "fail", val |-> 0, next |-> ptr]
    ELSE [r |-> "ok", val |-> ScanDigits(buf, ptr, 0).val,
          next |-> ScanDigits(buf, ptr, 0).next]

ScanUnsigned(buf, ptr) ==
    IF SkipWhite(buf, ptr) > Len(buf)
    THEN [r |-> "eof", val |-> 0, next |-> SkipWhite(buf, ptr)]
    ELSE IF buf[SkipWhite(buf, ptr)] = "-"
    THEN [ScanSigned(buf, SkipWhite(buf, ptr) + 1) EXCEPT !.val = 0 - @]
    ELSE IF buf[SkipWhite(buf, ptr)] = "+"
    THEN ScanSigned(buf, SkipWhite(buf, ptr) + 1)
    ELSE ScanSigned(buf, SkipWhite(buf, ptr))

\* n = sscanf(ptr, "%lu %*u %lu", &min_fault, &maj_fault)
sscanf_lu_u_lu(buf, ptr) ==
    LET first == ScanUnsigned(buf, ptr)
        second == ScanUnsigned(buf, first.next)
        third == ScanUnsigned(buf, second.next)
    IN  IF first.r = "eof" THEN [n |-> -1, min_fault |-> 0, maj_fault |-> 0]
        ELSE IF first.r = "fail" THEN [n |-> 0, min_fault |-> 0, maj_fault |-> 0]
        ELSE IF second.r # "ok" \/ third.r # "ok"
        THEN [n |-> 1, min_fault |-> first.val, maj_fault |-> 0]
        ELSE [n |-> 2, min_fault |-> first.val, maj_fault |-> third.val]

\* fault_get_by_proc() from the search of field 10 to the counters of the
\* zeroed record it acquired.
StatParsed(buf, ptr) ==
    IF ptr = NULL THEN [ret |-> -1, ptr |-> NULL, min_fault |-> 0, maj_fault |-> 0]
    ELSE IF sscanf_lu_u_lu(buf, ptr).n = 2
    THEN [ret |-> 0, ptr |-> ptr, min_fault |-> sscanf_lu_u_lu(buf, ptr).min_fault,
          maj_fault |-> sscanf_lu_u_lu(buf, ptr).maj_fault]
    ELSE [ret |-> 0, ptr |-> ptr, min_fault |-> 0, maj_fault |-> 0]

InitStat ==
    /\ MainIdle
    /\ FilterIdle
    /\ RunIdle
    /\ CacheIdle
    /\ PoolIdle
    /\ KeysIdle
    /\ AllocIdle
    /\ ScreenIdle
    /\ ApiIdle
    /\ JsonIdle
    /\ FmtIdle
    /\ pc = "stat"
    /\ stat_kernel \in StatRecords
    /\ stat_buf = <<>>
    /\ stat_got = NoGot

statFixed == <<mainVars, pc, filterVars, runVars, cacheVars, poolVars, keyVars, allocVars,
               fmt_val, fmt_buf, screenVars, apiVars,
                   jsonVars>>

\* fault_get_by_proc() reads the stat file and takes the two counters.
StatRead ==
    /\ pc = "stat"
    /\ stat_buf' = StatLine(stat_kernel)
    /\ stat_got' = StatParsed(StatLine(stat_kernel),
                              get_proc_self_stat_field(StatLine(stat_kernel), 10))
    /\ UNCHANGED <<statFixed, stat_kernel>>

\* The process faults on, or another process is looked at.
StatChange ==
    /\ pc = "stat"
    /\ stat_kernel' \in StatRecords
    /\ stat_buf' = <<>>
    /\ stat_got' = NoGot
    /\ UNCHANGED statFixed

NextStat ==
    \/ StatRead
    \/ StatChange

SpecStat == InitStat /\ [][NextStat]_vars

\* The line from its minflt field on.
FromMinflt(k) ==
    SpaceSep(<<Decimal(k.minflt), Decimal(k.cminflt), Decimal(k.majflt), <<"9">>>>)
        \o <<"\n">>

\* C21: whatever spaces and parentheses the command holds, the field search
\* starts at the last closing parenthesis of the line and stops at the
\* minflt field, and the sample gets minflt, field 10, as its minor count and
\* majflt, field 12, as its major count.
C21_StatFieldsAfterLastParen ==
    stat_got # NoGot =>
        /\ stat_got.ret = 0
        /\ stat_buf[LastOf(stat_buf, ")")] = ")"
        /\ LastOf(stat_buf, ")") = Len(Decimal(7)) + 2 + Len(stat_kernel.comm) + 1
        /\ stat_got.ptr = Len(stat_buf) - Len(FromMinflt(stat_kernel)) + 1
        /\ stat_got.min_fault = stat_kernel.minflt
        /\ stat_got.maj_fault = stat_kernel.majflt

\* C21 witness: the command ") (" was read with its counters 12 and 40.
C21_Witness ==
    /\ stat_kernel.comm = <<")", " ", "(">>
    /\ stat_got.ret = 0
    /\ stat_got.min_fault = 12
    /\ stat_got.maj_fault = 40
    /\ stat_buf # <<>>

(* ---------------------------------------------------------------------- *)
(* int64_to_str() on the whole range of int64_t                            *)
(*                                                                         *)
(* A 64-bit value is [neg, a, b, c]: the sign and the magnitude            *)
(* a * 10^12 + b * 10^6 + c with b, c < 10^6.  A number to print is        *)
(* [hi, lo]: hi * 10^6 + lo with lo < 10^6.                                *)
(* ---------------------------------------------------------------------- *)
Million == 1000000
BufLen == 12

FmtAs == {0, 1, 999, 1000, 9007, 9223372}
FmtBs == {0, 1, 999, 1000, 36854, 999999}
FmtCs == {0, 1, 499, 500, 501, 1500, 499999, 500000, 500001, 775807, 775808, 999499,
          999500, 999999}

\* INT64_MIN <= v <= INT64_MAX
InRange(v) ==
    \/ v.a < 9223372
    \/ v.a = 9223372 /\ v.b < 36854
    \/ v.a = 9223372 /\ v.b = 36854 /\ v.c <= (IF v.neg THEN 775808 ELSE 775807)

FmtValues ==
    {v \in [neg : BOOLEAN, a : FmtAs, b : FmtBs, c : FmtCs] :
        InRange(v) /\ (v.neg => v # [neg |-> TRUE, a |-> 0, b |-> 0, c |-> 0])}

\* A value below 2^31 as a 64-bit value.
Wide(n) == [neg |-> n < 0,
            a |-> 0,
            b |-> (IF n < 0 THEN 0 - n ELSE n) \div Million,
            c |-> (IF n < 0 THEN 0 - n ELSE n) % Million]

\* Rounding of a quotient with remainder r of divisor d to the nearest
\* integer, ties to the even one.
RoundsUp(r, d, odd) == 2 * r > d \/ (2 * r = d /\ odd)

Carry(hi, lo) == [hi |-> hi + lo \div Million, lo |-> lo % Million]

\* A choice of unit whose first threshold takes 1000000 itself as unscaled.
ScaledPast(val) ==
    LET v == IF val.neg THEN NoVal ELSE val
    IN  IF v.a = 0 /\ (v.b = 0 \/ (v.b = 1 /\ v.c = 0))
        THEN [n |-> Carry(v.b, v.c), unit |-> " "]
        ELSE IF v.a = 0 /\ v.b < 1000
        THEN [n |-> Carry(0, RoundDiv(v.b * Million + v.c, 1000)), unit |-> "k"]
        ELSE IF v.a = 0
        THEN [n |-> Carry(0, v.b + (IF RoundsUp(v.c, Million, v.b % 2 = 1)
                                     THEN 1 ELSE 0)),
              unit |-> "M"]
        ELSE [n |-> Carry(v.a \div 1000,
                          (v.a % 1000) * 1000 + v.b \div 1000
                            + (IF RoundsUp((v.b % 1000) * Million + v.c, 1000 * Million,
                                           (v.b \div 1000) % 2 = 1)
                               THEN 1 ELSE 0)),
              unit |-> "G"]

\* s and unit of int64_to_str(), s rounded as "%6.0f" prints it.
Scaled(val) ==
    LET v == IF val.neg THEN NoVal ELSE val
    IN  IF v.a = 0 /\ v.b = 0
        THEN [n |-> Carry(0, v.c), unit |-> " "]
        ELSE IF v.a = 0 /\ v.b < 1000
        THEN [n |-> Carry(0, RoundDiv(v.b * Million + v.c, 1000)), unit |-> "k"]
        ELSE IF v.a = 0
        THEN [n |-> Carry(0, v.b + (IF RoundsUp(v.c, Million, v.b % 2 = 1)
                                     THEN 1 ELSE 0)),
              unit |-> "M"]
        ELSE [n |-> Carry(v.a \div 1000,
                          (v.a % 1000) * 1000 + v.b \div 1000
                            + (IF RoundsUp((v.b % 1000) * Million + v.c, 1000 * Million,
                                           (v.b \div 1000) % 2 = 1)
                               THEN 1 ELSE 0)),
              unit |-> "G"]

RECURSIVE PadLeft(_, _, _)
PadLeft(s, width, ch) == IF Len(s) >= width THEN s ELSE PadLeft(<<ch>> \o s, width, ch)

Digits(n) ==
    IF n.hi = 0 THEN Decimal(n.lo)
    ELSE Decimal(n.hi) \o PadLeft(Decimal(n.lo), 6, "0")

\* snprintf(buf, buflen, "%6.0f%c", s, unit): what the buffer holds.
int64_to_str_buf(val, buflen) ==
    LET str == PadLeft(Digits(Scaled(val).n), 6, " ") \o <<Scaled(val).unit>>
    IN  IF Len(str) > buflen - 1 THEN SubSeq(str, 1, buflen - 1) ELSE str

InitFmt ==
    /\ MainIdle
    /\ FilterIdle
    /\ RunIdle
    /\ CacheIdle
    /\ PoolIdle
    /\ KeysIdle
    /\ AllocIdle
    /\ ScreenIdle
    /\ ApiIdle
    /\ JsonIdle
    /\ StatIdle
    /\ pc = "fmt"
    /\ fmt_val \in FmtValues
    /\ fmt_buf = <<>>

fmtFixed == <<mainVars, pc, filterVars, runVars, cacheVars, poolVars, keyVars, allocVars,
              stat_kernel, stat_buf, stat_got, screenVars, apiVars,
                   jsonVars>>

\* A dump formats one counter into its 12-byte buffer.
FmtCall ==
    /\ pc = "fmt"
    /\ fmt_buf' = int64_to_str_buf(fmt_val, BufLen)
    /\ UNCHANGED <<fmtFixed, fmt_val>>

\* The dump goes on to its next counter.
FmtNext ==
    /\ pc = "fmt"
    /\ fmt_val' \in FmtValues
    /\ fmt_buf' = <<>>
    /\ UNCHANGED fmtFixed

NextFmt ==
    \/ FmtCall
    \/ FmtNext

SpecFmt == InitFmt /\ [][NextFmt]_vars

\* The unit character and the number of a rendered field.
UnitOf(buf) == buf[Len(buf)]
NumberOf(buf) == ScanUnsigned(buf, 1).val

Formatted == fmt_buf # <<>>
Below(v, a, b) == v.neg \/ v.a < a \/ (v.a = a /\ v.b < b)

\* The unit is chosen at 10^6, 10^9 and 10^12, a negative value counts as 0,
\* and the number shown is the value in that unit, rounded to the nearest
\* integer.
UnitByThresholds ==
    Formatted =>
        /\ Below(fmt_val, 0, 1) =>
              /\ UnitOf(fmt_buf) = " "
              /\ NumberOf(fmt_buf) = IF fmt_val.neg THEN 0 ELSE fmt_val.c
        /\ (~Below(fmt_val, 0, 1) /\ Below(fmt_val, 0, 1000)) =>
              /\ UnitOf(fmt_buf) = "k"
              /\ 1000 * NumberOf(fmt_buf) - (fmt_val.b * Million + fmt_val.c)
                    \in -500..500
        /\ (~Below(fmt_val, 0, 1000) /\ Below(fmt_val, 1, 0)) =>
              /\ UnitOf(fmt_buf) = "M"
              /\ \/ NumberOf(fmt_buf) = fmt_val.b /\ fmt_val.c <= 500000
                 \/ NumberOf(fmt_buf) = fmt_val.b + 1 /\ fmt_val.c >= 500000
        /\ ~Below(fmt_val, 1, 0) => UnitOf(fmt_buf) = "G"
        /\ (~Below(fmt_val, 1, 0) /\ Below(fmt_val, 1001, 0)) =>
              \/ /\ NumberOf(fmt_buf) = fmt_val.a * 1000 + fmt_val.b \div 1000
                 /\ fmt_val.b % 1000 <= 500
              \/ /\ NumberOf(fmt_buf) = fmt_val.a * 1000 + fmt_val.b \div 1000 + 1
                 /\ fmt_val.b % 1000 >= 500

\* C22: the unit thresholds are 10^6, 10^9 and 10^12, and at the boundaries
\* 999999 renders as "999999 ", 1000000 as "  1000k" and 1000000000 as
\* "  1000M".
C22_UnitThresholds ==
    /\ UnitByThresholds
    /\ Formatted =>
          /\ fmt_val = Wide(999999) =>
                fmt_buf = <<"9", "9", "9", "9", "9", "9", " ">>
          /\ fmt_val = Wide(1000000) =>
                fmt_buf = <<" ", " ", "1", "0", "0", "0", "k">>
          /\ fmt_val = Wide(1000000000) =>
                fmt_buf = <<" ", " ", "1", "0", "0", "0", "M">>

\* C22 as stated: the same thresholds, and 999999 renders as " 999999 ", with
\* a blank before the digits.
C22_BoundariesAsStated ==
    /\ UnitByThresholds
    /\ Formatted =>
          /\ fmt_val = Wide(999999) =>
                fmt_buf = <<" ", "9", "9", "9", "9", "9", "9", " ">>
          /\ fmt_val = Wide(1000000) =>
                fmt_buf = <<" ", " ", "1", "0", "0", "0", "k">>
          /\ fmt_val = Wide(1000000000) =>
                fmt_buf = <<" ", " ", "1", "0", "0", "0", "M">>

\* C22 witness: 1000000 was rendered in thousands.
C22_Witness ==
    /\ fmt_val = Wide(1000000)
    /\ fmt_buf = <<" ", " ", "1", "0", "0", "0", "k">>

\* Blanks, then digits, then nothing else.
RightAligned(s) ==
    /\ s # <<>>
    /\ DigitOf(s[Len(s)]) >= 0
    /\ \A i \in 1..Len(s) : s[i] = " " \/ DigitOf(s[i]) >= 0
    /\ \A i \in 1..(Len(s) - 1) : DigitOf(s[i]) >= 0 => DigitOf(s[i + 1]) >= 0

\* C23: every 64-bit value renders as seven characters: six of blanks and
\* digits, the digits at the right, then one unit character.
C23_FixedWidth ==
    Formatted =>
        /\ Len(fmt_buf) = 7
        /\ RightAligned(SubSeq(fmt_buf, 1, 6))
        /\ UnitOf(fmt_buf) \in {" ", "k", "M", "G"}

(* ---------------------------------------------------------------------- *)
(* A scan whose stat files may be gone or cut short                        *)
(* ---------------------------------------------------------------------- *)
TheStat == [comm |-> <<"a", ")">>, minflt |-> 1, cminflt |-> 3, majflt |-> 2]

\* What fopen() and fgets() give for the stat file of a listed pid: no file,
\* nothing, the whole line, or the line cut before the closing parenthesis,
\* after field 6, before field 10 or after field 10.
CutAt == {0, 3, 14, Len(StatLine(TheStat)) - 8, Len(StatLine(TheStat)) - 6,
          Len(StatLine(TheStat))}
StatFiles ==
    {[open |-> FALSE, buf |-> <<>>]}
    \cup {[open |-> TRUE, buf |-> SubSeq(StatLine(TheStat), 1, n)] : n \in CutAt}

\* fault_get_by_proc() from fopen() to the counters: -1 when the file cannot
\* be opened, fgets() returns nothing or no field 10 is found.
StatOutcome(file) ==
    IF ~file.open \/ file.buf = <<>>
    THEN [ret |-> -1, ptr |-> NULL, min_fault |-> 0, maj_fault |-> 0]
    ELSE StatParsed(file.buf, get_proc_self_stat_field(file.buf, 10))

StatState(got) ==
    IF got.ret < 0 THEN [k |-> "fail", maj |-> 0, min |-> 0]
    ELSE [k |-> "ok", maj |-> got.maj_fault, min |-> got.min_fault]

\* The scan of a tick handles the next entry of /proc, reading its stat file.
TornOne ==
    /\ pc = "scan"
    /\ scan_pid <= NumPids
    /\ \/ /\ last_alloc' = [p |-> 0, was |-> <<>>, rec |-> <<>>]
          /\ stat_kernel' = NoStat
          /\ stat_buf' = <<>>
          /\ stat_got' = NoGot
          /\ UNCHANGED <<rec, fault_info_cache, nalloc, fault_info_new>>
       \/ \E file \in StatFiles :
             /\ AllocFor(fault_cache_alloc(ThePool), scan_pid,
                         StatState(StatOutcome(file)))
             /\ stat_kernel' = TheStat
             /\ stat_buf' = file.buf
             /\ stat_got' = StatOutcome(file)
    /\ scan_pid' = scan_pid + 1
    /\ UNCHANGED <<fault_info_old, sort_by, opt_flags, stop_faultstat, forever, count,
                   df, rows, cury, pc, ticks, vm_swap_of, scan_old, scan_new, rec_scan,
                   out>>
    /\ UNCHANGED <<filterVars, runVars, cacheVars, poolVars, keyVars, fmt_val, fmt_buf,
                   screenVars, apiVars,
                   jsonVars>>

NextTorn ==
    \/ PoolStartup
    \/ LoopEnter
    \/ LoopExit
    \/ Poll
    \/ TornOne
    \/ AllocDump
    \/ Release
    \/ Cleanup

\* A run of one tick after the start-up scan.
InitTorn ==
    /\ DataIdle
    /\ opt_flags = {}
    /\ forever = FALSE
    /\ count = 1
    /\ stop_faultstat = FALSE
    /\ df = "normal"
    /\ rows = DefaultRows
    /\ ticks = 0
    /\ pc = "main"
    /\ AuxIdle

SpecTorn == InitTorn /\ [][NextTorn]_vars

\* The stat file of the entry just handled could not be opened, or what was
\* read of it is not the whole record.
StatUnreadable ==
    /\ stat_got'.ret # NoGot.ret
    /\ stat_buf' # StatLine(stat_kernel')

\* C31: when the stat file of an entry cannot be opened or parsed, the record
\* acquired for it is back at the head of the free list, the new list is what
\* it was and holds no record of that pid, and the scan goes on to the next
\* entry.
C31_UnreadableStatDiscarded ==
    [][(scan_pid' = scan_pid + 1 /\ StatUnreadable) =>
          /\ fault_info_cache' = last_alloc'.p
          /\ fault_info_new' = fault_info_new
          /\ \A k \in DOMAIN ListOf(rec', fault_info_new', MaxRec) :
                rec'[ListOf(rec', fault_info_new', MaxRec)[k]].pid # scan_pid
          /\ pc' = "scan"]_vars

(* ---------------------------------------------------------------------- *)
(* Interrupted waits                                                       *)
(* ---------------------------------------------------------------------- *)
\* select() returns with EINTR and the stop flag, so far unset, is set:
\* by handle_sig, or by main because the resize flag is not set.
StopCut ==
    /\ pc = "select"
    /\ ~stop_faultstat
    /\ stop_faultstat'
    /\ <<clock, tv, pc, redo>>' # <<clock, tv, pc, redo>>

\* C32: a wait interrupted while the resize flag is not set is reported on
\* standard error and breaks the loop at once: main goes to its cleanup and
\* the scan and the dump of that tick are not performed.
C32_UnknownInterruptionIsFatal ==
    [][(StopCut /\ ~resized') =>
          /\ stderr' # stderr
          /\ pc' = "free_cache"]_vars

\* C35: a stop signal that interrupts the wait ends the wait, whether or not
\* a resize signal was received before: main goes on to the key poll and
\* select is not called again for the time that is left.
C35_StopSignalEndsTheWait ==
    [][StopCut => pc' = "poll"]_vars

(* ---------------------------------------------------------------------- *)
(* faultstat_top_printf() on a terminal of rows by cols                    *)
(* ---------------------------------------------------------------------- *)
MaxCalls == 4
BufSize == 256

\* Terminal sizes, and the texts of the dumps in small: a piece of the
\* heading, which is printed without a newline, a row, and the totals line
\* with its two newlines.
TtyRows == {2, 3}
TtyCols == {4, 8}
HeadingPiece == <<"M", "a", "j">>
RowText == <<"1", " ", "2", " ", "c", "\n">>
TotalsText == <<"T", "\n", "\n">>
Texts == {HeadingPiece, RowText, TotalsText}

\* vsnprintf(buf, size, ...) and buf[sz] = '\0': the first n characters.
Clip(text, n) == IF Len(text) > n THEN SubSeq(text, 1, n) ELSE text

Newlines(buf) == Cardinality({i \in 1..Len(buf) : buf[i] = "\n"})

\* printw("%s", buf): the characters go to the current line, a newline ends it.
RECURSIVE printw(_, _, _)
printw(tt, buf, i) ==
    IF i > Len(buf) THEN [tt EXCEPT !.calls = @ + 1]
    ELSE IF buf[i] = "\n"
    THEN printw([tt EXCEPT !.nl = @ + 1,
                           !.widest = IF tt.cur > @ THEN tt.cur ELSE @,
                           !.cur = 0],
                buf, i + 1)
    ELSE printw([tt EXCEPT !.cur = @ + 1,
                           !.widest = IF tt.cur + 1 > @ THEN tt.cur + 1 ELSE @],
                buf, i + 1)

\* The display is [cury, tty]; nothing is printed once cury >= rows.
faultstat_top_printf(d, text, nrows, ncols) ==
    IF d.cury >= nrows THEN d
    ELSE LET sz == IF ncols < BufSize - 1 THEN ncols ELSE BufSize - 1
             buf == Clip(Clip(text, BufSize - 1), sz)
         IN  [cury |-> d.cury + Newlines(buf), tty |-> printw(d.tty, buf, 1)]

InitScreen ==
    /\ DataIdle
    /\ opt_flags = {"TOP"}
    /\ forever = TRUE
    /\ count = -1
    /\ stop_faultstat = FALSE
    /\ df = "top"
    /\ rows \in TtyRows
    /\ ticks = 0
    /\ pc = "screen"
    /\ FilterIdle
    /\ RunIdle
    /\ CacheIdle
    /\ PoolIdle
    /\ KeysIdle
    /\ AllocIdle
    /\ PureIdle
    /\ ApiIdle
    /\ JsonIdle
    /\ cols \in TtyCols
    /\ tty = NoText

screenFixed == <<rec, fault_info_cache, fault_info_old, fault_info_new, nalloc, sort_by,
                 opt_flags, stop_faultstat, forever, count, df, ticks, vm_swap_of,
                 scan_old, scan_new, rec_scan, out, pc, filterVars, runVars, cacheVars,
                 poolVars, keyVars, allocVars, pureVars, apiVars, jsonVars>>

\* The top of the loop: df.df_clear() and cury = 0; the terminal has the
\* size the last df_winsize() found.
ScreenClear ==
    /\ pc = "screen"
    /\ tty.calls > 0
    /\ cury' = 0
    /\ tty' = NoText
    /\ rows' \in TtyRows
    /\ cols' \in TtyCols
    /\ UNCHANGED screenFixed

\* One df.df_printf() of a dump.
ScreenPrintf ==
    /\ pc = "screen"
    /\ tty.calls < MaxCalls
    /\ \E text \in Texts :
          /\ cury' = faultstat_top_printf([cury |-> cury, tty |-> tty], text, rows,
                                          cols).cury
          /\ tty' = faultstat_top_printf([cury |-> cury, tty |-> tty], text, rows,
                                         cols).tty
    /\ UNCHANGED <<screenFixed, rows, cols>>

NextScreen ==
    \/ ScreenClear
    \/ ScreenPrintf

SpecScreen == InitScreen /\ [][NextScreen]_vars

\* C33: between two clears of the interactive display, no more lines are
\* written than the terminal has rows and no line is longer than the
\* terminal has columns; the tracked row is the number of lines written and
\* never passes the row count.
C33_ScreenNeverOverflows ==
    pc = "screen" =>
        /\ tty.nl <= rows
        /\ tty.widest <= cols
        /\ cury = tty.nl
        /\ cury <= rows

(* ---------------------------------------------------------------------- *)
(* POST /api/safe-terminate (server.js)                                    *)
(*                                                                         *)
(* A process is [gen, user, name]: gen tells the processes apart that have *)
(* the same pid one after the other; a process that has exited keeps gen   *)
(* and has no name.  The handler runs from one await to the next without   *)
(* interruption; processes exit and start between these steps.             *)
(* ---------------------------------------------------------------------- *)
MaxGen == 2
ApiPids == {1, 42}
ApiUsers == {"alice", "Root"}
ServerUser == "alice"
CommApp == <<"a", "p", "p">>
CommInit == <<"i", "n", "i", "t", "d">>
CommSh == <<"s", "h">>
ApiComms == {CommApp, CommInit, CommSh}
\* processName of the request: absent, or "/u/App x".
ApiNames == {<<>>, <<"/", "u", "/", "A", "p", "p", " ", "x">>}
PROTECTED_PROCESSES == {<<"i", "n", "i", "t">>, <<"r", "c", "u", "_">>}

Alive(o) == o.name # <<>>

\* String.prototype.toLowerCase() on the characters of the model.
LowerChar(ch) == CASE ch = "A" -> "a" [] ch = "R" -> "r" [] OTHER -> ch
toLowerCase(str) == [i \in 1..Len(str) |-> LowerChar(str[i])]
UserLower(u) == IF u = "Root" THEN "root" ELSE u

\* name.split('/').pop().split(' ')[0].toLowerCase()
BaseNameOf(name) == toLowerCase(UpToSpace(AfterLastSlash(name)))

IsProtected(name) ==
    \E pn \in PROTECTED_PROCESSES :
        BaseNameOf(name) = toLowerCase(pn) \/ IsPrefix(toLowerCase(pn), BaseNameOf(name))

\* Steps 1 to 4 of the handler on the process ps reported: TRUE when the
\* handler goes on to its final alive check.
Validated(r, info) ==
    /\ Alive(info)
    /\ r.pid # 0
    /\ r.pid # 1
    /\ UserLower(info.user) # "root"
    /\ ~IsProtected(info.name)
    /\ r.processName # <<>> => BaseNameOf(r.processName) = BaseNameOf(info.name)

\* kill(1) run by the server delivers the signal to whoever has the pid,
\* if the server may signal that process.
Delivered(o) == Alive(o) /\ o.user = ServerUser

Gone(o) == [gen |-> o.gen, user |-> "", name |-> <<>>]

InitApi ==
    /\ MainIdle
    /\ FilterIdle
    /\ RunIdle
    /\ CacheIdle
    /\ PoolIdle
    /\ KeysIdle
    /\ AllocIdle
    /\ PureIdle
    /\ ScreenIdle
    /\ JsonIdle
    /\ pc = "api"
    /\ occupant \in [gen : {1}, user : ApiUsers, name : ApiComms]
    /\ req = NoReq
    /\ api_pc = "none"
    /\ processInfo = NoOne
    /\ signalled = {}

apiFixed == <<mainVars, pc, filterVars, runVars, cacheVars, poolVars, keyVars, allocVars,
              pureVars, screenVars, jsonVars>>

\* The request arrives: the handler calls getProcessInfoIfAlive().
ApiRequest ==
    /\ api_pc = "none"
    /\ req' \in [pid : ApiPids, processName : ApiNames]
    /\ api_pc' = "validate"
    /\ UNCHANGED <<apiFixed, occupant, processInfo, signalled>>

\* ps has run: steps 1 to 4, then the call of checkProcessAlive().
ApiValidate ==
    /\ api_pc = "validate"
    /\ processInfo' = IF Alive(occupant) THEN occupant ELSE NoOne
    /\ api_pc' = IF Validated(req, occupant) THEN "alive" ELSE "done"
    /\ UNCHANGED <<apiFixed, occupant, req, signalled>>

\* Step 5: /proc/pid exists or not; step 6 spawns kill -15.
ApiAlive ==
    /\ api_pc = "alive"
    /\ api_pc' = IF Alive(occupant) THEN "kill" ELSE "done"
    /\ UNCHANGED <<apiFixed, occupant, req, processInfo, signalled>>

Sent(sig) ==
    signalled' =
        IF Delivered(occupant)
        THEN signalled \cup {[sig |-> sig, to |-> occupant, validated |-> processInfo]}
        ELSE signalled

\* kill -15 runs and closes; the close handler calls checkProcessAlive().
ApiKill ==
    /\ api_pc = "kill"
    /\ Sent("TERM")
    /\ occupant' \in IF Delivered(occupant) THEN {occupant, Gone(occupant)} ELSE {occupant}
    /\ api_pc' = IF Delivered(occupant) THEN "closed0" ELSE "closed1"
    /\ UNCHANGED <<apiFixed, req, processInfo>>

\* killCode === 0 || processGone: respond; otherwise spawn kill -9.
ApiClosed ==
    /\ api_pc \in {"closed0", "closed1"}
    /\ api_pc' = IF api_pc = "closed0" \/ ~Alive(occupant) THEN "done" ELSE "sigkill"
    /\ UNCHANGED <<apiFixed, occupant, req, processInfo, signalled>>

\* kill -9 runs and closes.
ApiSigkill ==
    /\ api_pc = "sigkill"
    /\ Sent("KILL")
    /\ occupant' = IF Delivered(occupant) THEN Gone(occupant) ELSE occupant
    /\ api_pc' = "done"
    /\ UNCHANGED <<apiFixed, req, processInfo>>

\* The process that has the pid exits.
ProcExit ==
    /\ pc = "api"
    /\ Alive(occupant)
    /\ occupant' = Gone(occupant)
    /\ UNCHANGED <<apiFixed, req, api_pc, processInfo, signalled>>

\* The kernel gives the pid to a new process.
ProcStart ==
    /\ pc = "api"
    /\ ~Alive(occupant)
    /\ occupant.gen < MaxGen
    /\ occupant' \in [gen : {occupant.gen + 1}, user : ApiUsers, name : ApiComms]
    /\ UNCHANGED <<apiFixed, req, api_pc, processInfo, signalled>>

NextApi ==
    \/ ApiRequest
    \/ ApiValidate
    \/ ApiAlive
    \/ ApiKill
    \/ ApiClosed
    \/ ApiSigkill
    \/ ProcExit
    \/ ProcStart

SpecApi == InitApi /\ [][NextApi]_vars

\* C34: every signal the handler sends goes to the process that passed its
\* validation, and that process was alive, not pid 0 or 1, not owned by
\* root, not protected by name and of the requested base name.
C34_SignalOnlyToValidated ==
    \A sg \in signalled :
        /\ sg.to = sg.validated
        /\ Validated(req, sg.to)

(* ---------------------------------------------------------------------- *)
(* The three lists of fault records                                        *)
(* ---------------------------------------------------------------------- *)
IdsOf(ids) == {ids[k] : k \in DOMAIN ids}
NoRepeat(ids) == Cardinality(IdsOf(ids)) = Len(ids)

\* C36: in every state of a run, over scans in which stat files cannot be
\* read and over any number of ticks, the free list holds no record twice
\* and the free list, the previous list and the new list share no record.
C36_ListsDisjoint ==
    /\ NoRepeat(FreeIds)
    /\ NoRepeat(OldIds)
    /\ NoRepeat(NewIds)
    /\ IdsOf(FreeIds) \cap IdsOf(OldIds) = {}
    /\ IdsOf(FreeIds) \cap IdsOf(NewIds) = {}
    /\ IdsOf(OldIds) \cap IdsOf(NewIds) = {}

\* C36 witness: in the second tick a scan that met an unreadable stat file
\* has built the new list, and none of the three lists is empty.
C36_Witness ==
    /\ pc = "release"
    /\ ticks = 2
    /\ unread > 0
    /\ FreeIds # <<>>
    /\ OldIds # <<>>
    /\ NewIds # <<>>

(* ---------------------------------------------------------------------- *)
(* The machine-readable dump as text (fault_dump_json, main with -j)       *)
(*                                                                         *)
(* Texts are sequences of characters.  A sample set is the list           *)
(* fault_dump_json has sorted, each row with the two strings it prints:    *)
(* the user name and the command line.                                     *)
(* ---------------------------------------------------------------------- *)
MaxRows == 2
JsonCounts == {1, 2}
JsonCmds == {<<"a">>, <<"a", "\"">>, <<"\\">>, <<"a", " ", "b">>}
JsonUsers == {<<"u">>}
JsonRows ==
    [pid : {7}, maj_fault : {0, 12}, min_fault : {3}, d_maj_fault : {0},
     d_min_fault : {2}, vm_swap : {0}, user : JsonUsers, cmd : JsonCmds]
JsonSamples == UNION {[1..n -> JsonRows] : n \in 0..MaxRows}
JsonTimes == {5}

\* printf("Change in page faults (average per second):\n")
Banner ==
    <<"C", "h", "a", "n", "g", "e", " ", "i", "n", " ", "p", "a", "g", "e", " ", "f", "a",
          "u", "l", "t", "s", " ", "(", "a", "v", "e", "r", "a", "g", "e", " ", "p", "e",
          "r", " ", "s", "e", "c", "o", "n", "d", ")", ":">>

\* %d and %ld
Signed(n) == IF n < 0 THEN <<"-">> \o Decimal(0 - n) ELSE Decimal(n)

\* "{\"processes\":["
json_open ==
    <<"{", "\"", "p", "r", "o", "c", "e", "s", "s", "e", "s", "\"", ":", "[">>

\* One row of the print loop: the format of the printf and its arguments.
json_row_printf(x) ==
    <<"{", "\"", "p", "i", "d", "\"", ":">>
    \o Signed(x.pid) \o
    <<",", "\"", "m", "a", "j", "o", "r", "\"", ":">>
    \o Signed(x.maj_fault) \o
    <<",", "\"", "m", "i", "n", "o", "r", "\"", ":">>
    \o Signed(x.min_fault) \o
    <<",", "\"", "d", "e", "l", "t", "a", "M", "a", "j", "o", "r", "\"", ":">>
    \o Signed(x.d_maj_fault) \o
    <<",", "\"", "d", "e", "l", "t", "a", "M", "i", "n", "o", "r", "\"", ":">>
    \o Signed(x.d_min_fault) \o
    <<",", "\"", "s", "w", "a", "p", "\"", ":">>
    \o Signed(x.vm_swap) \o
    <<",", "\"", "u", "s", "e", "r", "\"", ":", "\"">>
    \o x.user \o
    <<"\"", ",", "\"", "c", "o", "m", "m", "a", "n", "d", "\"", ":", "\"">>
    \o x.cmd \o
    <<"\"", "}">>

RECURSIVE json_rows_printf(_, _)
json_rows_printf(rows_, k) ==
    IF k > Len(rows_) THEN <<>>
    ELSE (IF k = 1 THEN <<>> ELSE <<",">>) \o json_row_printf(rows_[k])
            \o json_rows_printf(rows_, k + 1)

RECURSIVE SumOf(_, _, _)
SumOf(rows_, F(_), k) ==
    IF k > Len(rows_) THEN 0 ELSE F(rows_[k]) + SumOf(rows_, F, k + 1)

\* The last printf, without its newline.
json_totals_printf(rows_, now) ==
    LET Maj(x) == x.maj_fault
        Min(x) == x.min_fault
        DMaj(x) == x.d_maj_fault
        DMin(x) == x.d_min_fault
        Swap(x) == x.vm_swap
    IN  <<"]", ",", "\"", "t", "o", "t", "a", "l", "s", "\"", ":", "{", "\"", "m", "a", "j",
              "o", "r", "\"", ":">>
        \o Signed(SumOf(rows_, Maj, 1)) \o
        <<",", "\"", "m", "i", "n", "o", "r", "\"", ":">>
        \o Signed(SumOf(rows_, Min, 1)) \o
        <<",", "\"", "d", "e", "l", "t", "a", "M", "a", "j", "o", "r", "\"", ":">>
        \o Signed(SumOf(rows_, DMaj, 1)) \o
        <<",", "\"", "d", "e", "l", "t", "a", "M", "i", "n", "o", "r", "\"", ":">>
        \o Signed(SumOf(rows_, DMin, 1)) \o
        <<",", "\"", "s", "w", "a", "p", "\"", ":">>
        \o Signed(SumOf(rows_, Swap, 1)) \o
        <<"}", ",", "\"", "t", "i", "m", "e", "s", "t", "a", "m", "p", "\"", ":">>
        \o Signed(now) \o <<"}">>

\* What one call of fault_dump_json writes: one line.
json_document(rows_, now) ==
    json_open \o json_rows_printf(rows_, 1) \o json_totals_printf(rows_, now)

\* JSON as RFC 8259 defines it, for texts without white space and without
\* the literals true, false and null.  Every recogniser takes the text and
\* the place to start at and gives the place after what it recognised, or 0.
Byte(s, i) == IF i \in 1..Len(s) THEN s[i] ELSE ""
DigitChars == {"0", "1", "2", "3", "4", "5", "6", "7", "8", "9"}
Escapes == {"\"", "\\", "/", "b", "f", "n", "r", "t"}

RECURSIVE json_chars(_, _)
json_chars(s, j) ==
    IF j > Len(s) THEN 0
    ELSE IF s[j] = "\"" THEN j + 1
    ELSE IF s[j] = "\\"
    THEN IF Byte(s, j + 1) \in Escapes THEN json_chars(s, j + 2) ELSE 0
    ELSE json_chars(s, j + 1)

json_string(s, i) == IF Byte(s, i) = "\"" THEN json_chars(s, i + 1) ELSE 0

RECURSIVE json_digits(_, _)
json_digits(s, j) == IF Byte(s, j) \in DigitChars THEN json_digits(s, j + 1) ELSE j

json_number(s, i) ==
    LET k == IF Byte(s, i) = "-" THEN i + 1 ELSE i
    IN  IF Byte(s, k) = "0" THEN k + 1
        ELSE IF Byte(s, k) \in DigitChars THEN json_digits(s, k)
        ELSE 0

RECURSIVE json_value(_, _)
RECURSIVE json_members(_, _)
RECURSIVE json_elements(_, _)
json_members(s, j) ==
    LET k == json_string(s, j)
        v == json_value(s, k + 1)
    IN  IF k = 0 \/ Byte(s, k) # ":" THEN 0
        ELSE IF v = 0 THEN 0
        ELSE IF Byte(s, v) = "," THEN json_members(s, v + 1)
        ELSE IF Byte(s, v) = "}" THEN v + 1
        ELSE 0

json_elements(s, j) ==
    LET v == json_value(s, j)
    IN  IF v = 0 THEN 0
        ELSE IF Byte(s, v) = "," THEN json_elements(s, v + 1)
        ELSE IF Byte(s, v) = "]" THEN v + 1
        ELSE 0

json_value(s, i) ==
    IF Byte(s, i) = "{"
    THEN IF Byte(s, i + 1) = "}" THEN i + 2 ELSE json_members(s, i + 1)
    ELSE IF Byte(s, i) = "["
    THEN IF Byte(s, i + 1) = "]" THEN i + 2 ELSE json_elements(s, i + 1)
    ELSE IF Byte(s, i) = "\"" THEN json_string(s, i)
    ELSE IF Byte(s, i) \in DigitChars \cup {"-"} THEN json_number(s, i)
    ELSE 0

\* The text is one JSON object and nothing more.
WellFormed(s) == Byte(s, 1) = "{" /\ json_value(s, 1) = Len(s) + 1

InitJson ==
    /\ DataIdle
    /\ opt_flags = {"JSON", "ONCE"}
    /\ count \in JsonCounts
    /\ forever = FALSE
    /\ stop_faultstat = FALSE
    /\ df = "normal"
    /\ rows = DefaultRows
    /\ ticks = 0
    /\ pc = "main"
    /\ FilterIdle
    /\ RunIdle
    /\ CacheIdle
    /\ PoolIdle
    /\ KeysIdle
    /\ AllocIdle
    /\ PureIdle
    /\ ScreenIdle
    /\ ApiIdle
    /\ stdout = <<>>

jsonFixed == <<rec, fault_info_cache, fault_info_old, fault_info_new, nalloc, sort_by,
               opt_flags, stop_faultstat, forever, df, rows, cury, vm_swap_of, scan_old,
               scan_new, rec_scan, out, filterVars, runVars, cacheVars, poolVars,
               keyVars, allocVars, pureVars, screenVars, apiVars>>

\* main before the loop: the banner of the plain mode.
JsonStartup ==
    /\ pc = "main"
    /\ count # 0
    /\ stdout' = IF "TOP" \in opt_flags THEN stdout ELSE Append(stdout, Banner)
    /\ pc' = "loop"
    /\ UNCHANGED <<jsonFixed, count, ticks>>

\* One pass of the loop: the wait, the scan and the dump that OPT_JSON selects.
JsonTick ==
    /\ pc = "loop"
    /\ ~stop_faultstat
    /\ forever \/ count # 0
    /\ "JSON" \in opt_flags
    /\ count' = IF forever THEN count ELSE count - 1
    /\ \E sample \in JsonSamples, now \in JsonTimes :
          stdout' = Append(stdout, json_document(sample, now))
    /\ ticks' = ticks + 1
    /\ UNCHANGED <<jsonFixed, pc>>

\* The loop ends; display_restore() of the plain display writes nothing.
JsonExit ==
    /\ pc = "loop"
    /\ stop_faultstat \/ (~forever /\ count = 0)
    /\ pc' = "done"
    /\ UNCHANGED <<jsonFixed, count, ticks, stdout>>

NextJson ==
    \/ JsonStartup
    \/ JsonTick
    \/ JsonExit

SpecJson == InitJson /\ [][NextJson]_vars

Documents == {k \in DOMAIN stdout : stdout[k] # Banner}

\* C37: every document the dump writes is well-formed JSON that starts with
\* the "processes" array, whatever the command strings and user names of the
\* sample set contain, and also for the empty sample set.
C37_DumpIsWellFormedJson ==
    \A k \in Documents : IsPrefix(json_open, stdout[k]) /\ WellFormed(stdout[k])

\* C38: standard output holds one JSON document for every tick done, and
\* no other line.
C38_OnlyDocumentsOnStdout ==
    /\ Len(stdout) = ticks
    /\ \A k \in DOMAIN stdout : IsPrefix(json_open, stdout[k])

====
